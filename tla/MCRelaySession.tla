---- MODULE MCRelaySession ----
EXTENDS RelaySession
OpenOrHome == {{}, {"home"}}
====
