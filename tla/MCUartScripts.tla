---- MODULE MCUartScripts ----
EXTENDS UartScripts
====
