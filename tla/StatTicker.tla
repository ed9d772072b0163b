------------------------------ MODULE StatTicker ------------------------------
(***************************************************************************)
(* stat.rs: two byte counters that the tunnel bumps, and the ticker that   *)
(* tells the Android app every 250 ms whether each moved.  The ticker's    *)
(* two loads and its line are steps of their own; bytes move in between.   *)
(* Bytes counted in u64 do not wrap in practice, and do not here.          *)
(***************************************************************************)
EXTENDS Naturals

CONSTANT MaxBytes     \* bound: bytes counted per direction

ASSUME TickerAssumption == MaxBytes \in Nat

VARIABLES
  tick,     \* where the ticker is
  bytes,    \* TX_BYTES and RX_BYTES
  cur, last,
  STAT      \* the flags of the latest line, which the LEDs show

tickerVars == <<tick, bytes, cur, last, STAT>>

Dir == {"tx", "rx"}
Zeros == [d \in Dir |-> 0]

TickerTypeOK ==
  /\ tick \in {"off", "sleep", "loaded", "print"}
  /\ bytes \in [Dir -> 0 .. MaxBytes] /\ STAT \in [Dir -> {0, 1}]
  /\ cur \in [Dir -> Nat] /\ last \in [Dir -> Nat]
  /\ \A d \in Dir : last[d] <= cur[d] /\ cur[d] <= bytes[d]

TickerOff == tick = "off" /\ bytes = Zeros /\ cur = Zeros /\ last = Zeros /\ STAT = Zeros

spawn_ticker ==
  /\ tick' = "sleep"
  /\ UNCHANGED <<bytes, cur, last, STAT>>

\* fetch_add, by any reader or writer task of the tunnel.
Moved ==
  /\ \E d \in Dir : bytes[d] < MaxBytes /\ bytes' = [bytes EXCEPT ![d] = @ + 1]
  /\ UNCHANGED <<tick, cur, last, STAT>>

LoadTx ==
  /\ tick = "sleep" /\ tick' = "loaded"
  /\ cur' = [cur EXCEPT !["tx"] = bytes["tx"]]
  /\ UNCHANGED <<bytes, last, STAT>>

LoadRx ==
  /\ tick = "loaded" /\ tick' = "print"
  /\ cur' = [cur EXCEPT !["rx"] = bytes["rx"]]
  /\ UNCHANGED <<bytes, last, STAT>>

PrintRereads ==                \* mutant: the counters are read again for last
  /\ tick = "print" /\ tick' = "sleep"
  /\ STAT' = [d \in Dir |-> IF cur[d] # last[d] THEN 1 ELSE 0]
  /\ last' = bytes /\ cur' = bytes
  /\ UNCHANGED bytes

PrintStat ==
  /\ tick = "print" /\ tick' = "sleep"
  /\ STAT' = [d \in Dir |-> IF cur[d] # last[d] THEN 1 ELSE 0]
  /\ last' = cur
  /\ UNCHANGED <<bytes, cur>>

Tick == LoadTx \/ LoadRx \/ PrintStat

\* No burst is missed, in whichever gap between two loads and a line it comes:
\* a line that lights the LED follows.  When traffic stops, so does the LED
\* (stat.rs:41-44 "a clean signal to switch LEDs OFF when traffic stops").
LedsFollow ==
  \A d \in Dir :
    /\ \A n \in 1 .. MaxBytes :
         (last[d] < n /\ n <= bytes[d]) ~> (STAT[d] = 1 /\ n <= last[d]) \/ tick = "off"
    /\ []<>(bytes[d] # last[d] \/ STAT[d] = 0 \/ tick = "off")

===============================================================================
