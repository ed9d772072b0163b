---- MODULE MCUsbwsMount ----
EXTENDS UsbwsMount
====
