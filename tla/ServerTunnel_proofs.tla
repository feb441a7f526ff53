------------------------ MODULE ServerTunnel_proofs ------------------------
(***************************************************************************)
(* What is proved of server mode, for channels of any capacity, any number *)
(* of frames and datagrams.                                                *)
(***************************************************************************)
EXTENDS ServerProperties, FrameSequences

----------------------------------------------------------------------------
(* The flag.  Both tasks count with swap, so the counts need no more than   *)
(* their types.                                                            *)

FlagInv ==
  /\ peer_unreachable \in BOOLEAN
  /\ warned \in Nat /\ cleared \in Nat
  /\ WarnedOncePerOutage

LEMMA FlagInvStep == FlagInv /\ [Next]_vars => FlagInv'
<1> SUFFICES ASSUME FlagInv, [Next]_vars PROVE FlagInv'
  OBVIOUS
<1> USE DEF FlagInv, WarnedOncePerOutage
<1>1. ASSUME UNCHANGED flag PROVE FlagInv'
  BY <1>1 DEF flag
<1>2. ASSUME note_unreachable PROVE FlagInv'
  BY <1>2 DEF note_unreachable
<1>3. ASSUME note_reachable PROVE FlagInv'
  BY <1>3 DEF note_reachable
<1>4. CASE MainStep \/ CaptureStep
  BY <1>1, <1>4 DEF MainStep, CaptureStep, build_capture_filter, start,
     main_select, capture_send
<1>5. CASE TxStep
  BY <1>1, <1>2, <1>5 DEF TxStep, tx_recv, tx_send_to, notice
<1>6. CASE RxStep
  BY <1>1, <1>2, <1>3, <1>6 DEF RxStep, rx_recv_from, notice, rx_clear, rx_send
<1>7. CASE InjectStep
  BY <1>1, <1>7 DEF InjectStep, blocking_recv, sendpacket
<1>8. CASE Environment
  BY <1>1, <1>8 DEF Environment, next_packet, io_error,
     datagram, port_unreachable, ctrl_c
<1>9. CASE UNCHANGED vars
  BY <1>1, <1>9 DEF vars
<1>10. QED
  BY <1>4, <1>5, <1>6, <1>7, <1>8, <1>9 DEF Next

\* However the two tasks interleave, the log has one "not open yet" for each
\* outage and one "now reachable" for its end (server.rs, both tasks' swaps).
THEOREM WarnsOnce == Spec => []WarnedOncePerOutage
<1>1. Init => FlagInv
  <2>1. Init => ~peer_unreachable /\ peer_unreachable \in BOOLEAN /\ warned = 0 /\ cleared = 0
    BY DEF Init
  <2>2. QED
    BY <2>1 DEF FlagInv, WarnedOncePerOutage
<1>2. FlagInv => WarnedOncePerOutage
  BY DEF FlagInv
<1>3. QED
  BY <1>1, <1>2, FlagInvStep, PTL DEF Spec

----------------------------------------------------------------------------
(* The filter.  What captures is a server that is past the dispatch, and    *)
(* by then the filter is the one the lookups call for.                     *)

LanFrames == [n : Nat, kind : {"lan"}]

FilterOn ==
  /\ pc \in [Threads -> Labels]
  /\ lookups_ok
  /\ pc["main"] # "dispatch" => capture_filter = SuppressedKinds

OnlyLan ==
  /\ DOMAIN held = Threads
  /\ captured \in Nat
  /\ held["capture"] \in Seq(LanFrames) /\ held["tx"] \in Seq(LanFrames)
  /\ cap_chan \in Seq(LanFrames) /\ sent \in Seq(LanFrames)

LEMMA FilterInvInit == ~LookupsFail /\ Init => FilterOn /\ OnlyLan
<1> SUFFICES ASSUME ~LookupsFail, Init PROVE FilterOn /\ OnlyLan
  OBVIOUS
<1>1. lookups_ok
  BY DEF Init
<1>2. pc \in [Threads -> Labels] /\ pc["main"] = "dispatch"
  BY DEF Init, Threads, Labels
<1>3. OnlyLan
  BY DEF Init, OnlyLan, Threads
<1>4. QED
  BY <1>1, <1>2, <1>3 DEF FilterOn

\* A frame that passes the filter is not the tunnel's own.
LEMMA FilteredIsLan ==
  ASSUME FilterOn, Up, NEW kind \in Kinds \ capture_filter, OnNic(kind)
  PROVE  kind = "lan"
BY DEF FilterOn, Up, Kinds, OnNic, SuppressedKinds, OwnKinds

LEMMA FilterOnStep == FilterOn /\ [Next]_vars => FilterOn'
<1> SUFFICES ASSUME FilterOn, [Next]_vars PROVE FilterOn'
  OBVIOUS
<1> USE DEF FilterOn
<1>1. ASSUME UNCHANGED nic
      PROVE  /\ lookups_ok' = lookups_ok /\ capture_filter' = capture_filter
             /\ SuppressedKinds' = SuppressedKinds
  BY <1>1 DEF nic, SuppressedKinds
<1>2. ASSUME NEW t \in Threads, NEW label \in Labels \ {"dispatch"}, Goto(t, label),
             t = "main" => pc["main"] # "dispatch", UNCHANGED nic
      PROVE  FilterOn'
  BY <1>1, <1>2 DEF Goto, Threads, Labels
<1>3. ASSUME UNCHANGED <<pc, nic>> PROVE FilterOn'
  BY <1>1, <1>3
<1>4. CASE build_capture_filter
  <2>1. SuppressedKinds' = SuppressedKinds /\ lookups_ok' = lookups_ok
    BY <1>4 DEF build_capture_filter, SuppressedKinds
  <2>2. pc' \in [Threads -> Labels]
    BY <1>4 DEF build_capture_filter, Goto, Threads, Labels
  <2>3. QED
    BY <1>4, <2>1, <2>2 DEF build_capture_filter
<1>5. CASE start \/ main_select \/ ctrl_c
  BY <1>2, <1>5 DEF start, main_select, ctrl_c, Up, Threads, Labels
<1>6. CASE CaptureStep \/ TxStep \/ RxStep \/ InjectStep
  BY <1>2, <1>6 DEF CaptureStep, TxStep, RxStep, InjectStep, capture_send,
     tx_recv, tx_send_to, notice, rx_recv_from, notice, rx_clear, rx_send,
     blocking_recv, sendpacket, Threads, Labels
<1>7. CASE next_packet \/ \E t \in {"capture", "rx"} : io_error(t)
  BY <1>2, <1>7 DEF next_packet, io_error, Threads, Labels
<1>8. CASE datagram \/ port_unreachable \/ UNCHANGED vars
  BY <1>3, <1>8 DEF datagram, port_unreachable, vars
<1>9. QED
  BY <1>4, <1>5, <1>6, <1>7, <1>8 DEF Next, MainStep, Environment

LEMMA OnlyLanStep == FilterOn /\ OnlyLan /\ [Next]_vars => OnlyLan'
<1> SUFFICES ASSUME FilterOn, OnlyLan, [Next]_vars PROVE OnlyLan'
  OBVIOUS
<1> USE DEF OnlyLan, Threads
<1>1. ASSUME NEW t \in {"rx", "inject"}, NEW frames, Hold(t, frames), UNCHANGED to_peer
      PROVE  OnlyLan'
  BY <1>1 DEF Hold, to_peer
<1>2. ASSUME UNCHANGED <<held, to_peer>> PROVE OnlyLan'
  BY <1>2 DEF to_peer
<1>3. CASE next_packet
  <2>1. PICK kind \in Kinds \ capture_filter :
           /\ OnNic(kind)
           /\ Hold("capture", <<[n |-> captured + 1, kind |-> kind]>>)
    BY <1>3 DEF next_packet
  <2>2. kind = "lan"
    BY <1>3, <2>1, FilteredIsLan DEF next_packet
  <2>3. <<[n |-> captured + 1, kind |-> kind]>> \in Seq(LanFrames)
    BY <2>2 DEF LanFrames
  <2>4. QED
    BY <1>3, <2>1, <2>3 DEF next_packet, Hold
<1>4. CASE capture_send
  <2>1. cap_chan \o held["capture"] \in Seq(LanFrames) /\ <<>> \in Seq(LanFrames)
    OBVIOUS
  <2>2. QED
    BY <1>4, <2>1 DEF capture_send, Hold
<1>5. CASE tx_recv
  <2>1. ASSUME cap_chan # <<>>
        PROVE  Tail(cap_chan) \in Seq(LanFrames) /\ <<Head(cap_chan)>> \in Seq(LanFrames)
    BY <2>1
  <2>2. QED
    BY <1>5, <2>1 DEF tx_recv, Hold
<1>6. CASE tx_send_to
  <2>1. sent \o held["tx"] \in Seq(LanFrames) /\ <<>> \in Seq(LanFrames)
    OBVIOUS
  <2>2. QED
    BY <1>6, <2>1 DEF tx_send_to, Hold
<1>7. CASE notice("tx")
  BY <1>2, <1>7 DEF notice
<1>8. CASE RxStep \/ InjectStep
  BY <1>1, <1>2, <1>8 DEF RxStep, InjectStep, rx_recv_from, notice, rx_clear,
     rx_send, blocking_recv, sendpacket, to_peer
<1>9. CASE MainStep
  BY <1>2, <1>9 DEF MainStep, build_capture_filter, start, main_select
<1>10. CASE \/ \E t \in {"capture", "rx"} : io_error(t)
            \/ datagram \/ port_unreachable \/ ctrl_c \/ UNCHANGED vars
  BY <1>2, <1>10 DEF io_error, datagram, port_unreachable,
     ctrl_c, vars
<1>11. QED
  BY <1>3, <1>4, <1>5, <1>6, <1>7, <1>8, <1>9, <1>10 DEF Next, CaptureStep,
     TxStep, Environment

\* Where both interface indices are found, no packet of the tunnel is ever in
\* the way to the peer: there is no forwarding loop (main.rs, server.rs).
THEOREM NoLoop == ~LookupsFail /\ Spec => []OwnNeverForwarded
<1>1. OnlyLan => OwnNeverForwarded
  <2> SUFFICES ASSUME OnlyLan,
                      NEW f \in ToSet(held["capture"] \o cap_chan \o held["tx"] \o sent)
               PROVE  f.kind \notin OwnKinds
    BY DEF OwnNeverForwarded
  <2>1. held["capture"] \o cap_chan \o held["tx"] \o sent \in Seq(LanFrames)
    BY DEF OnlyLan
  <2>2. f \in LanFrames
    <3> DEFINE s == held["capture"] \o cap_chan \o held["tx"] \o sent
    <3>1. PICK i \in DOMAIN s : f = s[i]
      BY Zenon DEF ToSet
    <3> HIDE DEF s
    <3>2. s \in Seq(LanFrames)
      BY <2>1 DEF s
    <3>3. QED
      BY <3>1, <3>2
  <2>3. QED
    BY <2>2 DEF LanFrames, OwnKinds
<1>2. QED
  BY <1>1, FilterInvInit, FilterOnStep, OnlyLanStep, PTL DEF Spec

----------------------------------------------------------------------------
(* The types.  First where the threads are and what holds no frames.       *)

LEMMA Bounds ==
  Capacity \in Nat /\ Capacity > 0 /\ MaxCaptured \in Nat /\ MaxArrived \in Nat
BY TunnelAssumption

ControlInv ==
  /\ pc \in [Threads -> Labels]
  /\ shared_nic \in BOOLEAN /\ lookups_ok \in BOOLEAN /\ capture_filter \subseteq Kinds
  /\ peer_unreachable \in BOOLEAN /\ reset_pending \in BOOLEAN
  /\ DOMAIN held = Threads

LEMMA Held ==
  ASSUME ControlInv, NEW t \in Threads, NEW frames, Hold(t, frames)
  PROVE  /\ DOMAIN held' = Threads /\ held'[t] = frames
         /\ \A u \in Threads \ {t} : held'[u] = held[u]
BY DEF ControlInv, Hold

LEMMA Went ==
  ASSUME ControlInv, NEW t \in Threads, NEW label \in Labels, Goto(t, label)
  PROVE  /\ pc' \in [Threads -> Labels] /\ pc'[t] = label
         /\ \A u \in Threads \ {t} : pc'[u] = pc[u]
BY DEF ControlInv, Goto

LEMMA ControlInvInit == Init => ControlInv
<1> SUFFICES ASSUME Init PROVE ControlInv
  OBVIOUS
<1>1. pc \in [Threads -> Labels]
  BY DEF Init, Threads, Labels
<1>2. lookups_ok \in BOOLEAN
  BY DEF Init
<1>3. QED
  BY <1>1, <1>2 DEF Init, ControlInv

LEMMA ControlInvStep == ControlInv /\ [Next]_vars => ControlInv'
<1> SUFFICES ASSUME ControlInv, [Next]_vars PROVE ControlInv'
  OBVIOUS
<1>1. ASSUME NEW t \in Threads, NEW label \in Labels, Goto(t, label),
             UNCHANGED <<nic, peer_unreachable>>, reset_pending' \in BOOLEAN,
             \/ UNCHANGED held
             \/ \E u \in Threads : \E frames : Hold(u, frames)
      PROVE  ControlInv'
  <2>1. DOMAIN held' = Threads
    BY <1>1, Held DEF ControlInv
  <2>2. pc' \in [Threads -> Labels]
    BY <1>1, Went
  <2>3. QED
    BY <1>1, <2>1, <2>2 DEF ControlInv, nic
<1> USE DEF Threads, Labels
<1>2. CASE build_capture_filter
  <2>1. capture_filter' \subseteq Kinds
    BY <1>2 DEF build_capture_filter, SuppressedKinds, Kinds
  <2>2. pc' \in [Threads -> Labels]
    BY <1>2, Went DEF build_capture_filter
  <2>3. QED
    BY <1>2, <2>1, <2>2 DEF build_capture_filter, ControlInv, flag, icmp
<1>3. CASE start \/ main_select \/ ctrl_c
  BY <1>1, <1>3 DEF start, main_select, ctrl_c, flag, icmp, ControlInv
<1>4. CASE CaptureStep \/ next_packet \/ InjectStep
  BY <1>1, <1>4 DEF CaptureStep, capture_send, next_packet, InjectStep, blocking_recv,
     sendpacket, flag, icmp, ControlInv
<1>5. CASE tx_recv \/ rx_send
  BY <1>1, <1>5 DEF tx_recv, rx_send, flag, icmp, ControlInv
<1>6. CASE tx_send_to
  <2>1. reset_pending' \in BOOLEAN
    BY <1>6, Zenon DEF tx_send_to, ControlInv
  <2>2. QED
    BY <1>1, <1>6, <2>1 DEF tx_send_to, flag
<1>7. CASE rx_recv_from
  <2>1. reset_pending' \in BOOLEAN
    BY <1>7, Zenon DEF rx_recv_from, ControlInv
  <2>2. QED
    BY <1>1, <1>7, <2>1 DEF rx_recv_from, flag
<1>8. ASSUME NEW t \in {"tx", "rx"}, notice(t) PROVE ControlInv'
  <2>1. pc' \in [Threads -> Labels]
    BY <1>8, Went DEF notice
  <2>2. QED
    BY <1>8, <2>1 DEF notice, note_unreachable, ControlInv, nic, icmp
<1>9. CASE rx_clear
  <2>1. pc' \in [Threads -> Labels]
    BY <1>9, Went DEF rx_clear
  <2>2. QED
    BY <1>9, <2>1 DEF rx_clear, note_reachable, ControlInv, nic, icmp
<1>10. CASE \E t \in {"capture", "rx"} : io_error(t)
  BY <1>1, <1>10 DEF io_error, flag, icmp, ControlInv
<1>11. CASE datagram \/ UNCHANGED vars
  BY <1>11 DEF datagram, vars, nic, flag, icmp, ControlInv
<1>12. CASE port_unreachable
  BY <1>12 DEF port_unreachable, nic, flag, ControlInv
<1>13. QED
  BY <1>2, <1>3, <1>4, <1>5, <1>6, <1>7, <1>8, <1>9, <1>10, <1>11, <1>12
  DEF Next, MainStep, TxStep, RxStep, Environment

(* A thread has a frame in hand only while it is about to hand it on.      *)
IdleInv ==
  /\ pc["capture"] # "send" => held["capture"] = <<>>
  /\ pc["tx"] # "send" => held["tx"] = <<>>
  /\ pc["rx"] \notin {"clear", "send"} => held["rx"] = <<>>
  /\ pc["inject"] # "send" => held["inject"] = <<>>
  /\ held["main"] = <<>>

LEMMA IdleInvStep == ControlInv /\ IdleInv /\ [Next]_vars => IdleInv'
<1> SUFFICES ASSUME ControlInv, IdleInv, [Next]_vars PROVE IdleInv'
  OBVIOUS
<1> USE DEF Threads, Labels
<1>1. ASSUME NEW t \in Threads, NEW label \in Labels, Goto(t, label), UNCHANGED held,
             held[t] = <<>> \/ label \in {"send"}
      PROVE  IdleInv'
  BY <1>1, Went DEF IdleInv
<1>2. ASSUME NEW t \in Threads, NEW label \in Labels, Goto(t, label), Hold(t, <<>>)
      PROVE  IdleInv'
  BY <1>2, Went, Held DEF IdleInv
<1>3. ASSUME NEW t \in {"capture", "tx", "inject"}, Goto(t, "send"),
             NEW frames, Hold(t, frames)
      PROVE  IdleInv'
  BY <1>3, Went, Held DEF IdleInv
<1>4. ASSUME NEW label \in {"clear", "send"}, Goto("rx", label),
             NEW frames, Hold("rx", frames)
      PROVE  IdleInv'
  BY <1>4, Went, Held DEF IdleInv
<1>5. ASSUME NEW label \in Labels, Goto("main", label), UNCHANGED held
      PROVE  IdleInv'
  BY <1>5, Went DEF IdleInv
<1>6. CASE MainStep \/ ctrl_c
  BY <1>5, <1>6 DEF MainStep, build_capture_filter, start, main_select, ctrl_c
<1>7. CASE CaptureStep \/ next_packet
  BY <1>2, <1>3, <1>7 DEF CaptureStep, capture_send, next_packet
<1>8. CASE tx_recv
  <2>1. held["tx"] = <<>>
    BY <1>8 DEF tx_recv, IdleInv
  <2>2. QED
    BY <1>1, <1>3, <1>8, <2>1 DEF tx_recv
<1>9. CASE tx_send_to
  BY <1>2, <1>9 DEF tx_send_to
<1>10. ASSUME NEW t \in {"tx", "rx"}, notice(t) PROVE IdleInv'
  <2>1. held[t] = <<>>
    BY <1>10 DEF notice, IdleInv
  <2>2. QED
    BY <1>1, <1>10, <2>1 DEF notice
<1>11. CASE rx_recv_from
  <2>1. held["rx"] = <<>>
    BY <1>11 DEF rx_recv_from, IdleInv
  <2>2. QED
    BY <1>1, <1>4, <1>11, <2>1 DEF rx_recv_from
<1>12. CASE rx_clear \/ rx_send
  BY <1>1, <1>2, <1>12 DEF rx_clear, rx_send
<1>13. CASE blocking_recv
  <2>1. held["inject"] = <<>>
    BY <1>13 DEF blocking_recv, IdleInv
  <2>2. QED
    BY <1>1, <1>3, <1>13, <2>1 DEF blocking_recv
<1>14. CASE sendpacket
  BY <1>2, <1>14 DEF sendpacket
<1>15. ASSUME NEW t \in {"capture", "rx"}, io_error(t) PROVE IdleInv'
  <2>1. held[t] = <<>>
    BY <1>15 DEF io_error, IdleInv
  <2>2. QED
    BY <1>1, <1>15, <2>1 DEF io_error
<1>16. CASE datagram \/ port_unreachable \/ UNCHANGED vars
  BY <1>16 DEF datagram, port_unreachable, vars, IdleInv
<1>17. QED
  BY <1>6, <1>7, <1>8, <1>9, <1>10, <1>11, <1>12, <1>13, <1>14, <1>15, <1>16
  DEF Next, TxStep, RxStep, InjectStep, Environment

(* The frames of one direction, and that they were all captured.           *)
AtPeer  == Len(sent)
AtTx    == Len(held["tx"])
Queued  == Len(cap_chan)
AtNic   == Len(held["capture"])

SendInv ==
  /\ captured \in 0..MaxCaptured
  /\ held["capture"] \in Seq(Captured) /\ Len(held["capture"]) <= 1
  /\ cap_chan \in Seq(Captured) /\ Len(cap_chan) <= Capacity
  /\ held["tx"] \in Seq(Captured) /\ Len(held["tx"]) <= 1
  /\ sent \in Seq(Captured)
  /\ AtPeer + AtTx + Queued + AtNic <= captured

\* What leaves a thread may be lost: the sum does not grow.
LEMMA FewerSent ==
  ASSUME NEW p \in Nat, NEW t \in Nat, NEW q \in Nat, NEW n \in Nat, NEW m \in Nat,
         NEW q2 \in Nat, q2 <= q + n, p + t + q + n <= m
  PROVE  p + t + q2 + 0 <= m
OBVIOUS

LEMMA FewerLeft ==
  ASSUME NEW p \in Nat, NEW t \in Nat, NEW q \in Nat, NEW n \in Nat, NEW m \in Nat,
         NEW p2 \in Nat, NEW q2 \in Nat, p2 <= p + t, q2 <= q, p + t + q + n <= m
  PROVE  p2 + 0 + q2 + n <= m
OBVIOUS

LEMMA SendStep ==
  ControlInv /\ IdleInv /\ SendInv /\ [Next]_vars => SendInv' /\ Len(sent) <= Len(sent')
<1> SUFFICES ASSUME ControlInv, IdleInv, SendInv, [Next]_vars
             PROVE  SendInv' /\ Len(sent) <= Len(sent')
  OBVIOUS
<1> USE Bounds
<1>l. /\ Len(sent) \in Nat /\ Len(cap_chan) \in Nat
      /\ Len(held["capture"]) \in Nat /\ Len(held["tx"]) \in Nat
  BY Lengths DEF SendInv
<1>c. captured \in Nat
  BY DEF SendInv
<1>a. AtPeer \in Nat /\ AtTx \in Nat /\ Queued \in Nat /\ AtNic \in Nat
  BY <1>l DEF AtPeer, AtTx, Queued, AtNic
<1>s. AtPeer + AtTx + Queued + AtNic <= captured
  BY DEF SendInv
<1>1. ASSUME UNCHANGED to_peer,
             held'["capture"] = held["capture"], held'["tx"] = held["tx"]
      PROVE  SendInv' /\ Len(sent) <= Len(sent')
  <2>1. cap_chan' = cap_chan /\ captured' = captured /\ sent' = sent
    BY <1>1 DEF to_peer
  <2>2. captured' \in 0..MaxCaptured
    BY <2>1 DEF SendInv
  <2>3. held'["capture"] \in Seq(Captured) /\ Len(held'["capture"]) <= 1
    BY <1>1 DEF SendInv
  <2>4. cap_chan' \in Seq(Captured) /\ Len(cap_chan') <= Capacity
    BY <2>1 DEF SendInv
  <2>5. held'["tx"] \in Seq(Captured) /\ Len(held'["tx"]) <= 1
    BY <1>1 DEF SendInv
  <2>6. sent' \in Seq(Captured) /\ Len(sent) <= Len(sent')
    BY <1>l, <2>1 DEF SendInv
  <2>7. AtPeer' + AtTx' + Queued' + AtNic' <= captured'
    BY <1>1, <1>s, <2>1 DEF AtPeer, AtTx, Queued, AtNic
  <2>8. QED
    BY <2>2, <2>3, <2>4, <2>5, <2>6, <2>7 DEF SendInv
<1>2. ASSUME NEW t \in Threads \ {"capture", "tx"}, NEW label \in Labels, Goto(t, label),
             UNCHANGED to_peer,
             \/ UNCHANGED held
             \/ \E u \in Threads \ {"capture", "tx"} : \E frames : Hold(u, frames)
      PROVE  SendInv' /\ Len(sent) <= Len(sent')
  <2>1. held'["capture"] = held["capture"] /\ held'["tx"] = held["tx"]
    BY <1>2, Held DEF Threads
  <2>2. pc'["capture"] = pc["capture"] /\ pc'["tx"] = pc["tx"]
    BY <1>2, Went DEF Threads
  <2>3. QED
    BY <1>1, <1>2, <2>1, <2>2
<1>3. CASE next_packet
  <2>1. PICK kind \in Kinds \ capture_filter :
           Hold("capture", <<[n |-> captured + 1, kind |-> kind]>>)
    BY <1>3 DEF next_packet
  <2> DEFINE f == [n |-> captured + 1, kind |-> kind]
  <2>2. f \in Captured
    BY <1>3 DEF next_packet, SendInv, Captured
  <2>3. <<f>> \in Seq(Captured) /\ Len(<<f>>) = 1
    BY <2>2, One
  <2>4. held'["capture"] = <<f>> /\ held'["tx"] = held["tx"]
    BY <2>1, Held DEF Threads
  <2>5. pc'["capture"] = "send" /\ pc'["tx"] = pc["tx"]
    BY <1>3, Went DEF next_packet, Threads, Labels
  <2>6. captured' = captured + 1 /\ captured < MaxCaptured /\ cap_chan' = cap_chan
        /\ sent' = sent /\ held["capture"] = <<>>
    BY <1>3 DEF next_packet, IdleInv
  <2> HIDE DEF f
  <2>7. Len(held["capture"]) = 0
    BY <2>6, Empty
  <2>8. AtPeer' + AtTx' + Queued' + AtNic' <= captured'
    <3>1. /\ AtPeer' = AtPeer /\ AtTx' = AtTx /\ Queued' = Queued
          /\ AtNic = 0 /\ AtNic' = 1 /\ captured' = captured + 1
      BY <2>3, <2>4, <2>6, <2>7 DEF AtPeer, AtTx, Queued, AtNic
    <3>2. QED
      BY <1>a, <1>c, <1>s, <3>1
  <2>9. cap_chan' \in Seq(Captured) /\ Len(cap_chan') <= Capacity
    BY <2>6 DEF SendInv
  <2>10. sent' \in Seq(Captured) /\ Len(sent) <= Len(sent') /\ captured' \in 0..MaxCaptured
    BY <1>c, <1>l, <2>6 DEF SendInv
  <2>11. held'["capture"] \in Seq(Captured) /\ Len(held'["capture"]) <= 1
    BY <2>3, <2>4
  <2>12. held'["tx"] \in Seq(Captured) /\ Len(held'["tx"]) <= 1
    BY <2>4 DEF SendInv
  <2>13. QED
    BY <2>8, <2>9, <2>10, <2>11, <2>12 DEF SendInv
<1>4. CASE capture_send
  <2>1. cap_chan \o held["capture"] \in Seq(Captured)
        /\ Len(cap_chan \o held["capture"]) = Len(cap_chan) + Len(held["capture"])
    BY Pushed DEF SendInv
  <2>2. held'["capture"] = <<>> /\ held'["tx"] = held["tx"]
    BY <1>4, Held DEF capture_send, Threads
  <2>3. pc'["tx"] = pc["tx"]
    BY <1>4, Went DEF capture_send, Threads, Labels
  <2>4. /\ sent' = sent /\ captured' = captured
        /\ \/ cap_chan' = cap_chan
           \/ Len(cap_chan) < Capacity /\ cap_chan' = cap_chan \o held["capture"]
    BY <1>4 DEF capture_send
  <2>5. /\ cap_chan' \in Seq(Captured) /\ Len(cap_chan') <= Capacity
        /\ Len(cap_chan') <= Len(cap_chan) + Len(held["capture"])
        /\ Len(cap_chan') \in Nat
    <3>1. CASE cap_chan' = cap_chan
      BY <1>l, <3>1 DEF SendInv
    <3>2. CASE Len(cap_chan) < Capacity /\ cap_chan' = cap_chan \o held["capture"]
      BY <1>l, <2>1, <3>2 DEF SendInv
    <3>3. QED
      BY <2>4, <3>1, <3>2
  <2>6. held'["capture"] \in Seq(Captured) /\ Len(held'["capture"]) = 0
    BY <2>2, Empty
  <2>7. AtPeer' + AtTx' + Queued' + AtNic' <= captured'
    <3>1. /\ AtPeer' = AtPeer /\ AtTx' = AtTx /\ AtNic' = 0 /\ captured' = captured
          /\ Queued' \in Nat /\ Queued' <= Queued + AtNic
      BY <2>2, <2>4, <2>5, <2>6 DEF AtPeer, AtTx, Queued, AtNic
    <3>2. AtPeer + AtTx + Queued' + 0 <= captured
      BY <1>a, <1>c, <1>s, <3>1, FewerSent
    <3>3. QED
      BY <3>1, <3>2
  <2>8. sent' \in Seq(Captured) /\ Len(sent) <= Len(sent') /\ captured' \in 0..MaxCaptured
    BY <1>l, <2>4 DEF SendInv
  <2>9. held'["tx"] \in Seq(Captured) /\ Len(held'["tx"]) <= 1
    BY <2>2 DEF SendInv
  <2>10. QED
    BY <2>5, <2>6, <2>7, <2>8, <2>9 DEF SendInv
<1>5. CASE tx_recv
  <2>1. CASE cap_chan # <<>>
    <3>1. /\ <<Head(cap_chan)>> \in Seq(Captured) /\ Len(<<Head(cap_chan)>>) = 1
          /\ Tail(cap_chan) \in Seq(Captured) /\ Len(Tail(cap_chan)) = Len(cap_chan) - 1
      BY <2>1, Popped, One DEF SendInv
    <3>2. held'["tx"] = <<Head(cap_chan)>> /\ held'["capture"] = held["capture"]
      BY <1>5, <2>1, Held DEF tx_recv, Threads
    <3>3. pc'["tx"] = "send" /\ pc'["capture"] = pc["capture"]
      BY <1>5, <2>1, Went DEF tx_recv, Threads, Labels
    <3>4. /\ cap_chan' = Tail(cap_chan) /\ sent' = sent /\ captured' = captured
          /\ held["tx"] = <<>>
      BY <1>5, <2>1 DEF tx_recv, IdleInv
    <3>5. Len(held["tx"]) = 0
      BY <3>4, Empty
    <3>6. AtPeer' + AtTx' + Queued' + AtNic' <= captured'
      <4>1. /\ AtPeer' = AtPeer /\ AtTx' = 1 /\ AtTx = 0 /\ AtNic' = AtNic
            /\ captured' = captured /\ Queued' = Queued - 1
        BY <3>1, <3>2, <3>4, <3>5 DEF AtPeer, AtTx, Queued, AtNic
      <4>2. QED
        BY <1>a, <1>c, <1>s, <4>1
    <3>7. cap_chan' \in Seq(Captured) /\ Len(cap_chan') <= Capacity
      BY <1>l, <3>1, <3>4 DEF SendInv
    <3>8. sent' \in Seq(Captured) /\ Len(sent) <= Len(sent') /\ captured' \in 0..MaxCaptured
      BY <1>l, <3>4 DEF SendInv
    <3>9. held'["capture"] \in Seq(Captured) /\ Len(held'["capture"]) <= 1
      BY <3>2 DEF SendInv
    <3>10. held'["tx"] \in Seq(Captured) /\ Len(held'["tx"]) <= 1
      BY <3>1, <3>2
    <3>11. QED
      BY <3>6, <3>7, <3>8, <3>9, <3>10 DEF SendInv
  <2>2. CASE cap_chan = <<>>
    <3>1. pc'["tx"] = "ended" /\ pc'["capture"] = pc["capture"]
      BY <1>5, <2>2, Went DEF tx_recv, Threads, Labels
    <3>2. QED
      BY <1>1, <1>5, <2>2, <3>1 DEF tx_recv, to_peer
  <2>3. QED
    BY <2>1, <2>2
<1>6. CASE tx_send_to
  <2>1. sent \o held["tx"] \in Seq(Captured)
        /\ Len(sent \o held["tx"]) = Len(sent) + Len(held["tx"])
    BY Pushed DEF SendInv
  <2>2. held'["tx"] = <<>> /\ held'["capture"] = held["capture"]
    BY <1>6, Held DEF tx_send_to, Threads
  <2>3. pc'["capture"] = pc["capture"]
    BY <1>6, Went DEF tx_send_to, Threads, Labels
  <2>4. /\ captured' = captured
        /\ sent' = sent \/ sent' = sent \o held["tx"]
        /\ cap_chan' = cap_chan \/ cap_chan' = <<>>
    BY <1>6 DEF tx_send_to
  <2>5. /\ sent' \in Seq(Captured) /\ Len(sent') \in Nat
        /\ Len(sent) <= Len(sent') /\ Len(sent') <= Len(sent) + Len(held["tx"])
    <3>1. CASE sent' = sent
      BY <1>l, <3>1 DEF SendInv
    <3>2. CASE sent' = sent \o held["tx"]
      BY <1>l, <2>1, <3>2
    <3>3. QED
      BY <2>4, <3>1, <3>2
  <2>6. /\ cap_chan' \in Seq(Captured) /\ Len(cap_chan') \in Nat
        /\ Len(cap_chan') <= Len(cap_chan)
    <3>1. CASE cap_chan' = cap_chan
      BY <1>l, <3>1 DEF SendInv
    <3>2. CASE cap_chan' = <<>>
      BY <1>l, <3>2, Empty
    <3>3. QED
      BY <2>4, <3>1, <3>2
  <2>7. held'["tx"] \in Seq(Captured) /\ Len(held'["tx"]) = 0
    BY <2>2, Empty
  <2>8. AtPeer' + AtTx' + Queued' + AtNic' <= captured'
    <3>1. /\ AtNic' = AtNic /\ AtTx' = 0 /\ captured' = captured
          /\ Queued' \in Nat /\ Queued' <= Queued
          /\ AtPeer' \in Nat /\ AtPeer' <= AtPeer + AtTx
      BY <2>2, <2>4, <2>5, <2>6, <2>7 DEF AtPeer, AtTx, Queued, AtNic
    <3>2. AtPeer' + 0 + Queued' + AtNic <= captured
      BY <1>a, <1>c, <1>s, <3>1, FewerLeft
    <3>3. QED
      BY <3>1, <3>2
  <2>9. cap_chan' \in Seq(Captured) /\ Len(cap_chan') <= Capacity
    BY <1>l, <2>6 DEF SendInv
  <2>10. captured' \in 0..MaxCaptured
    BY <2>4 DEF SendInv
  <2>11. held'["capture"] \in Seq(Captured) /\ Len(held'["capture"]) <= 1
    BY <2>2 DEF SendInv
  <2>12. QED
    BY <2>5, <2>7, <2>8, <2>9, <2>10, <2>11 DEF SendInv
<1>7. CASE notice("tx")
  <2>1. pc'["capture"] = pc["capture"]
    BY <1>7, Went DEF notice, Threads, Labels
  <2>2. QED
    BY <1>1, <1>7, <2>1 DEF notice
<1>8. CASE RxStep \/ InjectStep \/ MainStep \/ ctrl_c
  BY <1>2, <1>8 DEF RxStep, InjectStep, MainStep, ctrl_c, rx_recv_from, notice, rx_clear,
     rx_send, blocking_recv, sendpacket, build_capture_filter, start, main_select,
     Threads, Labels
<1>9. ASSUME NEW t \in {"capture", "rx"}, io_error(t)
      PROVE  SendInv' /\ Len(sent) <= Len(sent')
  <2>1. /\ pc'["tx"] = pc["tx"]
        /\ pc'["capture"] = pc["capture"] \/ pc'["capture"] # "idle"
    BY <1>9, Went DEF io_error, Threads, Labels
  <2>2. QED
    BY <1>1, <1>9, <2>1 DEF io_error
<1>10. CASE datagram \/ port_unreachable \/ UNCHANGED vars
  BY <1>1, <1>10 DEF datagram, port_unreachable, vars
<1>11. QED
  BY <1>3, <1>4, <1>5, <1>6, <1>7, <1>8, <1>9, <1>10 DEF Next, CaptureStep, TxStep,
     Environment

(* The datagrams of the other direction, and that they all arrived.        *)
AtSocket == Len(socket)

RecvInv ==
  /\ arrived \in 0..MaxArrived
  /\ held["rx"] \in Seq(Arrived) /\ Len(held["rx"]) <= 1
  /\ inj_chan \in Seq(Arrived) /\ Len(inj_chan) <= Capacity
  /\ held["inject"] \in Seq(Arrived) /\ Len(held["inject"]) <= 1
  /\ socket \in Seq(Arrived)
  /\ injected \in Seq(Arrived)

LEMMA RecvStep == ControlInv /\ IdleInv /\ RecvInv /\ [Next]_vars => RecvInv'
<1> SUFFICES ASSUME ControlInv, IdleInv, RecvInv, [Next]_vars PROVE RecvInv'
  OBVIOUS
<1> USE Bounds
<1>l. Len(inj_chan) \in Nat /\ Len(held["rx"]) \in Nat /\ arrived \in Nat
  BY Lengths DEF RecvInv
<1>1. ASSUME UNCHANGED to_nic, held'["rx"] = held["rx"], held'["inject"] = held["inject"]
      PROVE  RecvInv'
  <2>1. /\ inj_chan' = inj_chan /\ arrived' = arrived /\ socket' = socket
        /\ injected' = injected
    BY <1>1 DEF to_nic
  <2>2. QED
    BY <1>1, <2>1 DEF RecvInv
<1>2. ASSUME NEW t \in {"capture", "tx"}, NEW frames, Hold(t, frames), UNCHANGED to_nic
      PROVE  RecvInv'
  <2>1. held'["rx"] = held["rx"] /\ held'["inject"] = held["inject"]
    BY <1>2, Held DEF Threads
  <2>2. QED
    BY <1>1, <1>2, <2>1
<1>3. CASE MainStep \/ ctrl_c
  BY <1>1, <1>3 DEF MainStep, build_capture_filter, start, main_select, ctrl_c
<1>4. CASE CaptureStep \/ next_packet
  BY <1>2, <1>4 DEF CaptureStep, capture_send, next_packet
<1>5. CASE tx_recv
  BY <1>1, <1>2, <1>5 DEF tx_recv
<1>6. CASE tx_send_to
  BY <1>2, <1>6 DEF tx_send_to
<1>7. ASSUME NEW t \in {"tx", "rx"}, notice(t) PROVE RecvInv'
  BY <1>1, <1>7 DEF notice
<1>8. CASE rx_recv_from
  <2>1. CASE /\ socket # <<>> /\ Hold("rx", <<Head(socket)>>) /\ socket' = Tail(socket)
    <3>1. /\ <<Head(socket)>> \in Seq(Arrived) /\ Len(<<Head(socket)>>) = 1
          /\ Tail(socket) \in Seq(Arrived)
      BY <2>1, Popped, One DEF RecvInv
    <3>2. held'["rx"] = <<Head(socket)>> /\ held'["inject"] = held["inject"]
      BY <2>1, Held DEF Threads
    <3>3. /\ inj_chan' = inj_chan /\ arrived' = arrived /\ injected' = injected
          /\ socket' = Tail(socket)
      BY <1>8, <2>1 DEF rx_recv_from
    <3>4. held'["rx"] \in Seq(Arrived) /\ Len(held'["rx"]) <= 1
      BY <3>1, <3>2
    <3>5. socket' \in Seq(Arrived)
      BY <3>1, <3>3
    <3>6. QED
      BY <3>2, <3>3, <3>4, <3>5 DEF RecvInv
  <2>2. CASE UNCHANGED <<held, socket>>
    BY <1>1, <1>8, <2>2 DEF rx_recv_from, to_nic
  <2>3. QED
    BY <1>8, <2>1, <2>2 DEF rx_recv_from
<1>9. CASE rx_clear
  BY <1>1, <1>9 DEF rx_clear
<1>10. CASE rx_send
  <2>1. inj_chan \o held["rx"] \in Seq(Arrived)
        /\ Len(inj_chan \o held["rx"]) = Len(inj_chan) + Len(held["rx"])
    BY Pushed DEF RecvInv
  <2>2. held'["rx"] = <<>> /\ held'["inject"] = held["inject"]
    BY <1>10, Held DEF rx_send, Threads
  <2>3. /\ inj_chan' = inj_chan \o held["rx"] /\ Len(inj_chan) < Capacity
        /\ arrived' = arrived /\ socket' = socket /\ injected' = injected
    BY <1>10 DEF rx_send
  <2>4. inj_chan' \in Seq(Arrived) /\ Len(inj_chan') <= Capacity
    BY <1>l, <2>1, <2>3 DEF RecvInv
  <2>5. held'["rx"] \in Seq(Arrived) /\ Len(held'["rx"]) <= 1
    BY <2>2, Empty
  <2>6. QED
    BY <2>2, <2>3, <2>4, <2>5 DEF RecvInv
<1>11. CASE blocking_recv
  <2>1. CASE /\ inj_chan # <<>> /\ Hold("inject", <<Head(inj_chan)>>)
             /\ inj_chan' = Tail(inj_chan)
    <3>1. /\ <<Head(inj_chan)>> \in Seq(Arrived) /\ Len(<<Head(inj_chan)>>) = 1
          /\ Tail(inj_chan) \in Seq(Arrived) /\ Len(Tail(inj_chan)) = Len(inj_chan) - 1
      BY <2>1, Popped, One DEF RecvInv
    <3>2. held'["inject"] = <<Head(inj_chan)>> /\ held'["rx"] = held["rx"]
      BY <2>1, Held DEF Threads
    <3>3. /\ inj_chan' = Tail(inj_chan) /\ arrived' = arrived /\ socket' = socket
          /\ injected' = injected
      BY <1>11, <2>1 DEF blocking_recv
    <3>4. held'["inject"] \in Seq(Arrived) /\ Len(held'["inject"]) <= 1
      BY <3>1, <3>2
    <3>5. inj_chan' \in Seq(Arrived) /\ Len(inj_chan') <= Capacity
      BY <1>l, <3>1, <3>3 DEF RecvInv
    <3>6. QED
      BY <3>2, <3>3, <3>4, <3>5 DEF RecvInv
  <2>2. CASE UNCHANGED <<held, inj_chan>>
    BY <1>1, <1>11, <2>2 DEF blocking_recv, to_nic
  <2>3. QED
    BY <1>11, <2>1, <2>2 DEF blocking_recv
<1>12. CASE sendpacket
  <2>1. injected \o held["inject"] \in Seq(Arrived)
    BY Pushed DEF RecvInv
  <2>2. held'["inject"] = <<>> /\ held'["rx"] = held["rx"]
    BY <1>12, Held DEF sendpacket, Threads
  <2>3. /\ injected' \in {injected, injected \o held["inject"]}
        /\ arrived' = arrived /\ socket' = socket /\ inj_chan' = inj_chan
    BY <1>12 DEF sendpacket
  <2>4. injected' \in Seq(Arrived)
    BY <2>1, <2>3 DEF RecvInv
  <2>5. held'["inject"] \in Seq(Arrived) /\ Len(held'["inject"]) <= 1
    BY <2>2, Empty
  <2>6. QED
    BY <2>2, <2>3, <2>4, <2>5 DEF RecvInv
<1>13. CASE datagram
  <2>1. arrived' = arrived + 1 /\ arrived < MaxArrived /\ socket' = Append(socket, arrived + 1)
        /\ inj_chan' = inj_chan /\ injected' = injected /\ held' = held
    BY <1>13 DEF datagram
  <2>2. arrived + 1 \in Arrived /\ arrived' \in 0..MaxArrived
    BY <1>l, <2>1 DEF Arrived
  <2>3. socket' \in Seq(Arrived)
    BY <2>1, <2>2, Appended DEF RecvInv
  <2>4. QED
    BY <2>1, <2>2, <2>3 DEF RecvInv
<1>14. CASE port_unreachable \/ UNCHANGED vars
  BY <1>1, <1>14 DEF port_unreachable, vars
<1>15. ASSUME NEW t \in {"capture", "rx"}, io_error(t) PROVE RecvInv'
  BY <1>1, <1>15 DEF io_error
<1>16. QED
  BY <1>3, <1>4, <1>5, <1>6, <1>7, <1>8, <1>9, <1>10, <1>11, <1>12, <1>13, <1>14, <1>15
  DEF Next, TxStep, RxStep, InjectStep, Environment

(* No more lines are logged than there is reason to: a warning for a reset *)
(* at most, a reset for a frame at most, a clearing for a datagram.        *)
Pending   == IF reset_pending THEN 1 ELSE 0
Noting(t) == IF pc[t] = "notice" THEN 1 ELSE 0
Clearing  == IF pc["rx"] = "clear" THEN 1 ELSE 0

WarnInv ==
  /\ warned \in Nat /\ resets \in Nat
  /\ warned + Pending + Noting("tx") + Noting("rx") <= resets
  /\ resets <= AtPeer

ClearInv ==
  /\ cleared \in Nat
  /\ cleared + Clearing + AtSocket <= arrived

LEMMA AtMost ==
  ASSUME NEW x \in Nat, NEW y \in Nat, NEW r \in Nat, x <= y, y <= r
  PROVE  x <= r
OBVIOUS

\* A reset that was in a task's hands is one no more.
LEMMA OneGone ==
  ASSUME NEW w \in Nat, NEW p \in Nat, NEW b \in Nat
  PROVE  w + p + 0 + b <= w + p + 1 + b /\ w + p + b + 0 <= w + p + b + 1
OBVIOUS

LEMMA WarnStep ==
  /\ ControlInv /\ SendInv /\ WarnInv
  /\ [Next]_vars /\ Len(sent) <= Len(sent') /\ Len(sent') \in Nat
  => WarnInv'
<1> SUFFICES ASSUME ControlInv, SendInv, WarnInv, [Next]_vars,
                    Len(sent) <= Len(sent'), Len(sent') \in Nat
             PROVE  WarnInv'
  OBVIOUS
<1> USE DEF Threads, Labels
<1>b. /\ Pending \in Nat /\ Noting("tx") \in Nat /\ Noting("rx") \in Nat
      /\ Pending' \in Nat /\ Noting("tx")' \in Nat /\ Noting("rx")' \in Nat
  BY DEF Pending, Noting
<1>l. AtPeer \in Nat /\ AtPeer' \in Nat /\ AtPeer <= AtPeer'
  BY Lengths DEF SendInv, AtPeer
<1>w. /\ warned \in Nat /\ resets \in Nat /\ resets <= AtPeer
      /\ warned + Pending + Noting("tx") + Noting("rx") <= resets
  BY DEF WarnInv
<1>1. ASSUME warned' = warned, resets' = resets, Pending' = Pending,
             Noting("tx")' = Noting("tx"), Noting("rx")' = Noting("rx")
      PROVE  WarnInv'
  BY <1>1, <1>l, <1>w DEF WarnInv
<1>2. ASSUME UNCHANGED <<pc, warned, icmp>> PROVE WarnInv'
  BY <1>1, <1>2 DEF icmp, Pending, Noting
<1>3. ASSUME NEW t \in Threads, NEW label \in Labels \ {"notice"}, pc[t] # "notice",
             Goto(t, label), UNCHANGED <<warned, icmp>>
      PROVE  WarnInv'
  <2>1. Noting("tx")' = Noting("tx") /\ Noting("rx")' = Noting("rx")
    BY <1>3, Went DEF Noting
  <2>2. QED
    BY <1>1, <1>3, <2>1 DEF icmp, Pending
<1>4. ASSUME NEW t \in {"tx", "rx"}, pc[t] # "notice", Goto(t, "notice"),
             reset_pending, reset_pending' = FALSE, warned' = warned, resets' = resets
      PROVE  WarnInv'
  <2>1. Pending = 1 /\ Pending' = 0
    BY <1>4 DEF Pending
  <2>2. Noting(t) = 0 /\ Noting(t)' = 1
    BY <1>4, Went DEF Noting
  <2>3. \A u \in {"tx", "rx"} \ {t} : Noting(u)' = Noting(u)
    BY <1>4, Went DEF Noting
  <2>4. warned + Pending' + Noting("tx")' + Noting("rx")'
        = warned + Pending + Noting("tx") + Noting("rx")
    BY <1>b, <1>w, <2>1, <2>2, <2>3
  <2>5. QED
    BY <1>4, <1>l, <1>w, <2>4 DEF WarnInv
<1>5. ASSUME NEW t \in {"tx", "rx"}, notice(t) PROVE WarnInv'
  <2>1. Noting(t) = 1 /\ Noting(t)' = 0
    BY <1>5, Went DEF notice, Noting
  <2>2. \A u \in {"tx", "rx"} \ {t} : Noting(u)' = Noting(u)
    BY <1>5, Went DEF notice, Noting
  <2>3. /\ Pending' = Pending /\ resets' = resets
        /\ warned' = warned \/ warned' = warned + 1
    BY <1>5, <1>w DEF notice, note_unreachable, icmp, Pending
  <2>4. warned' + Pending' + Noting("tx")' + Noting("rx")'
        <= warned + Pending + Noting("tx") + Noting("rx")
    <3>1. CASE warned' = warned
      <4>1. CASE t = "tx"
        <5>1. /\ Noting("tx") = 1 /\ Noting("tx")' = 0 /\ Noting("rx")' = Noting("rx")
              /\ Pending' = Pending
          BY <2>1, <2>2, <2>3, <4>1
        <5>2. warned + Pending + 0 + Noting("rx") <= warned + Pending + 1 + Noting("rx")
          BY <1>b, <1>w, OneGone
        <5>3. warned' + Pending' + Noting("tx")' + Noting("rx")'
              = warned + Pending + 0 + Noting("rx")
          BY <3>1, <5>1
        <5>4. warned + Pending + Noting("tx") + Noting("rx")
              = warned + Pending + 1 + Noting("rx")
          BY <5>1
        <5>5. QED
          BY <5>2, <5>3, <5>4
      <4>2. CASE t = "rx"
        <5>1. /\ Noting("rx") = 1 /\ Noting("rx")' = 0 /\ Noting("tx")' = Noting("tx")
              /\ Pending' = Pending
          BY <2>1, <2>2, <2>3, <4>2
        <5>2. warned + Pending + Noting("tx") + 0 <= warned + Pending + Noting("tx") + 1
          BY <1>b, <1>w, OneGone
        <5>3. warned' + Pending' + Noting("tx")' + Noting("rx")'
              = warned + Pending + Noting("tx") + 0
          BY <3>1, <5>1
        <5>4. warned + Pending + Noting("tx") + Noting("rx")
              = warned + Pending + Noting("tx") + 1
          BY <5>1
        <5>5. QED
          BY <5>2, <5>3, <5>4
      <4>3. QED
        BY <4>1, <4>2
    <3>2. CASE warned' = warned + 1
      <4>1. CASE t = "tx"
        <5>1. /\ Noting("tx") = 1 /\ Noting("tx")' = 0 /\ Noting("rx")' = Noting("rx")
              /\ Pending' = Pending
          BY <2>1, <2>2, <2>3, <4>1
        <5>2. (warned + 1) + Pending + 0 + Noting("rx") = warned + Pending + 1 + Noting("rx")
          BY <1>b, <1>w
        <5>3. warned + Pending + 1 + Noting("rx") \in Nat
          BY <1>b, <1>w
        <5>4. QED
          BY <3>2, <5>1, <5>2, <5>3
      <4>2. CASE t = "rx"
        <5>1. /\ Noting("rx") = 1 /\ Noting("rx")' = 0 /\ Noting("tx")' = Noting("tx")
              /\ Pending' = Pending
          BY <2>1, <2>2, <2>3, <4>2
        <5>2. (warned + 1) + Pending + Noting("tx") + 0 = warned + Pending + Noting("tx") + 1
          BY <1>b, <1>w
        <5>3. warned + Pending + Noting("tx") + 1 \in Nat
          BY <1>b, <1>w
        <5>4. QED
          BY <3>2, <5>1, <5>2, <5>3
      <4>3. QED
        BY <4>1, <4>2
    <3>3. QED
      BY <2>3, <3>1, <3>2
  <2>5. warned' + Pending' + Noting("tx")' + Noting("rx")' <= resets
    <3>1. warned' \in Nat
      BY <1>w, <2>3
    <3>2. warned' + Pending' + Noting("tx")' + Noting("rx")' \in Nat
      BY <1>b, <3>1
    <3>3. warned + Pending + Noting("tx") + Noting("rx") \in Nat
      BY <1>b, <1>w
    <3>4. QED
      BY <1>w, <2>4, <3>2, <3>3, AtMost
  <2>6. QED
    BY <1>l, <1>w, <2>3, <2>5 DEF WarnInv
<1>6. CASE MainStep \/ ctrl_c
  BY <1>3, <1>6 DEF MainStep, build_capture_filter, start, main_select, ctrl_c, Up, flag
<1>7. CASE CaptureStep \/ next_packet
  BY <1>3, <1>7 DEF CaptureStep, capture_send, next_packet, flag
<1>8. CASE tx_recv
  BY <1>3, <1>8 DEF tx_recv, flag
<1>9. CASE tx_send_to
  BY <1>3, <1>4, <1>9 DEF tx_send_to, flag, icmp
<1>10. CASE rx_recv_from
  BY <1>3, <1>4, <1>10 DEF rx_recv_from, flag, icmp
<1>11. CASE rx_clear
  BY <1>3, <1>11 DEF rx_clear, note_reachable
<1>12. CASE rx_send \/ InjectStep
  BY <1>3, <1>12 DEF rx_send, InjectStep, blocking_recv, sendpacket, flag
<1>13. CASE datagram \/ UNCHANGED vars
  BY <1>2, <1>13 DEF datagram, vars, flag
<1>14. CASE port_unreachable
  <2>1. /\ Pending = 0 /\ Pending' = 1 /\ resets' = resets + 1 /\ warned' = warned
        /\ resets < AtPeer /\ AtPeer' = AtPeer
        /\ Noting("tx")' = Noting("tx") /\ Noting("rx")' = Noting("rx")
    BY <1>14 DEF port_unreachable, flag, to_peer, Pending, Noting, AtPeer
  <2>2. warned' + Pending' + Noting("tx")' + Noting("rx")' <= resets'
    BY <1>b, <1>w, <2>1
  <2>3. QED
    BY <1>l, <1>w, <2>1, <2>2 DEF WarnInv
<1>15. ASSUME NEW t \in {"capture", "rx"}, io_error(t) PROVE WarnInv'
  BY <1>3, <1>15 DEF io_error, flag
<1>16. QED
  BY <1>5, <1>6, <1>7, <1>8, <1>9, <1>10, <1>11, <1>12, <1>13, <1>14, <1>15
  DEF Next, TxStep, RxStep, Environment

LEMMA ClearStep ==
  ControlInv /\ RecvInv /\ ClearInv /\ [Next]_vars => ClearInv'
<1> SUFFICES ASSUME ControlInv, RecvInv, ClearInv, [Next]_vars PROVE ClearInv'
  OBVIOUS
<1> USE DEF Threads, Labels
<1>b. Clearing \in Nat /\ Clearing' \in Nat
  BY DEF Clearing
<1>l. AtSocket \in Nat /\ arrived \in Nat
  BY Lengths, Bounds DEF RecvInv, AtSocket
<1>w. cleared \in Nat /\ cleared + Clearing + AtSocket <= arrived
  BY DEF ClearInv
<1>1. ASSUME cleared' = cleared, Clearing' = Clearing, AtSocket' = AtSocket,
             arrived' = arrived
      PROVE  ClearInv'
  BY <1>1, <1>w DEF ClearInv
<1>2. ASSUME UNCHANGED <<cleared, socket, arrived>>, pc'["rx"] = pc["rx"]
      PROVE  ClearInv'
  BY <1>1, <1>2 DEF AtSocket, Clearing
<1>3. ASSUME NEW t \in Threads \ {"rx"}, NEW label \in Labels, Goto(t, label),
             UNCHANGED <<cleared, socket, arrived>>
      PROVE  ClearInv'
  BY <1>2, <1>3, Went
<1>4. ASSUME NEW label \in Labels \ {"clear"}, pc["rx"] # "clear", Goto("rx", label),
             UNCHANGED <<cleared, socket, arrived>>
      PROVE  ClearInv'
  BY <1>1, <1>4, Went DEF AtSocket, Clearing
<1>5. CASE MainStep \/ ctrl_c
  BY <1>3, <1>5 DEF MainStep, build_capture_filter, start, main_select, ctrl_c, flag, to_nic
<1>6. CASE CaptureStep \/ next_packet
  BY <1>3, <1>6 DEF CaptureStep, capture_send, next_packet, flag, to_nic
<1>7. CASE tx_recv \/ tx_send_to
  BY <1>3, <1>7 DEF tx_recv, tx_send_to, flag, to_nic
<1>8. ASSUME NEW t \in {"tx", "rx"}, notice(t) PROVE ClearInv'
  BY <1>3, <1>4, <1>8 DEF notice, note_unreachable, to_nic
<1>9. CASE rx_recv_from
  <2>1. CASE /\ socket # <<>> /\ socket' = Tail(socket) /\ Goto("rx", "clear")
    <3>1. AtSocket' = AtSocket - 1
      BY <2>1, Popped DEF RecvInv, AtSocket
    <3>2. Clearing = 0 /\ Clearing' = 1 /\ cleared' = cleared /\ arrived' = arrived
      BY <1>9, <2>1, Went DEF rx_recv_from, Clearing, flag
    <3>3. QED
      BY <1>l, <1>w, <3>1, <3>2 DEF ClearInv
  <2>2. CASE Goto("rx", "notice") /\ UNCHANGED <<held, socket>>
    BY <1>4, <1>9, <2>2 DEF rx_recv_from, flag
  <2>3. QED
    BY <1>9, <2>1, <2>2 DEF rx_recv_from
<1>10. CASE rx_clear
  <2>1. /\ Clearing = 1 /\ Clearing' = 0 /\ AtSocket' = AtSocket /\ arrived' = arrived
        /\ cleared' = cleared \/ cleared' = cleared + 1
    BY <1>10, Went DEF rx_clear, note_reachable, Clearing, AtSocket, to_nic
  <2>2. CASE cleared' = cleared
    <3>1. cleared + 0 + AtSocket <= cleared + 1 + AtSocket
      BY <1>l, <1>w
    <3>2. QED
      BY <1>l, <1>w, <2>1, <2>2, <3>1 DEF ClearInv
  <2>3. CASE cleared' = cleared + 1
    BY <1>l, <1>w, <2>1, <2>3 DEF ClearInv
  <2>4. QED
    BY <2>1, <2>2, <2>3
<1>11. CASE rx_send
  BY <1>4, <1>11 DEF rx_send, flag
<1>12. CASE InjectStep
  BY <1>3, <1>12 DEF InjectStep, blocking_recv, sendpacket, flag
<1>13. CASE datagram
  <2>1. AtSocket' = AtSocket + 1
    <3>1. arrived + 1 \in Arrived
      BY <1>13, <1>l, Bounds DEF datagram, Arrived
    <3>2. QED
      BY <1>13, <3>1, Appended DEF datagram, RecvInv, AtSocket
  <2>2. arrived' = arrived + 1 /\ cleared' = cleared /\ Clearing' = Clearing
    BY <1>13 DEF datagram, flag, Clearing
  <2>3. QED
    BY <1>b, <1>l, <1>w, <2>1, <2>2 DEF ClearInv
<1>14. CASE port_unreachable \/ UNCHANGED vars
  BY <1>2, <1>14 DEF port_unreachable, vars, flag, to_nic
<1>15. ASSUME NEW t \in {"capture", "rx"}, io_error(t) PROVE ClearInv'
  BY <1>3, <1>4, <1>15 DEF io_error, flag, to_nic
<1>16. QED
  BY <1>5, <1>6, <1>7, <1>8, <1>9, <1>10, <1>11, <1>12, <1>13, <1>14, <1>15
  DEF Next, TxStep, RxStep, Environment

TypeInv == ControlInv /\ IdleInv /\ SendInv /\ RecvInv /\ WarnInv /\ ClearInv

LEMMA FirstOfFour ==
  ASSUME NEW a \in Nat, NEW b \in Nat, NEW c \in Nat, NEW d \in Nat, NEW m \in Nat,
         a + b + c + d <= m
  PROVE  a <= m
OBVIOUS

LEMMA TypeInvInit == Init => TypeInv
<1> SUFFICES ASSUME Init PROVE TypeInv
  OBVIOUS
<1>1. held["capture"] = <<>> /\ held["tx"] = <<>> /\ held["rx"] = <<>>
      /\ held["inject"] = <<>> /\ held["main"] = <<>>
  BY DEF Init, Threads
<1>2. IdleInv
  BY <1>1 DEF IdleInv
<1>3. AtPeer = 0 /\ AtTx = 0 /\ Queued = 0 /\ AtNic = 0 /\ AtSocket = 0
  BY <1>1, Empty DEF Init, AtPeer, AtTx, Queued, AtNic, AtSocket
<1>4. SendInv
  <2>1. <<>> \in Seq(Captured) /\ Len(<<>>) = 0
    BY Empty
  <2>2. cap_chan = <<>> /\ sent = <<>> /\ captured = 0
    BY DEF Init
  <2>3. QED
    BY <1>1, <1>3, <2>1, <2>2, Bounds DEF SendInv
<1>5. RecvInv
  <2>1. <<>> \in Seq(Arrived) /\ Len(<<>>) = 0
    BY Empty
  <2>2. inj_chan = <<>> /\ injected = <<>> /\ socket = <<>> /\ arrived = 0
    BY DEF Init
  <2>3. QED
    BY <1>1, <2>1, <2>2, Bounds DEF RecvInv
<1>6. Pending = 0 /\ Noting("tx") = 0 /\ Noting("rx") = 0 /\ Clearing = 0
  BY DEF Init, Pending, Noting, Clearing, Threads
<1>7. WarnInv /\ ClearInv
  BY <1>3, <1>6 DEF Init, WarnInv, ClearInv
<1>8. QED
  BY <1>2, <1>4, <1>5, <1>7, ControlInvInit DEF TypeInv

LEMMA TypeInvStep == TypeInv /\ [Next]_vars => TypeInv'
<1> SUFFICES ASSUME TypeInv, [Next]_vars PROVE TypeInv'
  OBVIOUS
<1>1. SendInv' /\ Len(sent) <= Len(sent')
  BY SendStep DEF TypeInv
<1>2. Len(sent') \in Nat
  BY <1>1, Lengths DEF SendInv
<1>3. WarnInv'
  BY <1>1, <1>2, WarnStep DEF TypeInv
<1>4. QED
  BY <1>1, <1>3, ControlInvStep, IdleInvStep, RecvStep, ClearStep DEF TypeInv

\* The types and the bounds of ServerTunnel: a thread holds one frame at
\* most, no channel more than its capacity, and no more warnings are logged
\* than frames were sent, for every capacity and number of frames.
THEOREM ServerTypeCorrect == Spec => []TypeOK
<1>1. TypeInv => TypeOK
  <2> SUFFICES ASSUME TypeInv PROVE TypeOK
    OBVIOUS
  <2> USE Bounds
  <2>1. \A t \in Threads : Len(held[t]) <= 1
    <3>1. Len(held["main"]) <= 1
      BY Empty DEF TypeInv, IdleInv
    <3>2. QED
      BY <3>1 DEF TypeInv, SendInv, RecvInv, Threads
  <2>2. ToSet(held["capture"]) \cup ToSet(held["tx"]) \cup ToSet(cap_chan)
          \cup ToSet(sent) \subseteq Captured
    BY Members DEF TypeInv, SendInv
  <2>3. ToSet(held["rx"]) \cup ToSet(held["inject"]) \cup ToSet(inj_chan)
          \cup ToSet(socket) \cup ToSet(injected) \subseteq Arrived
    BY Members DEF TypeInv, RecvInv
  <2>4. /\ AtPeer \in Nat /\ AtTx \in Nat /\ Queued \in Nat /\ AtNic \in Nat
        /\ AtSocket \in Nat
    BY Lengths DEF TypeInv, SendInv, RecvInv, AtPeer, AtTx, Queued, AtNic, AtSocket
  <2>5. resets \in 0..MaxCaptured /\ warned \in 0..MaxCaptured
    <3>1. /\ resets \in Nat /\ warned \in Nat /\ resets <= AtPeer
          /\ warned + Pending + Noting("tx") + Noting("rx") <= resets
          /\ AtPeer + AtTx + Queued + AtNic <= captured
          /\ captured \in Nat /\ captured <= MaxCaptured
      BY DEF TypeInv, WarnInv, SendInv
    <3>2. /\ Pending \in Nat /\ Noting("tx") \in Nat /\ Noting("rx") \in Nat
      BY DEF Pending, Noting
    <3>3. warned <= resets /\ AtPeer <= captured
      BY <2>4, <3>1, <3>2, FirstOfFour
    <3>4. QED
      BY <2>4, <3>1, <3>3
  <2>6. cleared \in 0..MaxArrived
    <3>1. /\ cleared \in Nat /\ cleared + Clearing + AtSocket + 0 <= arrived
          /\ arrived \in Nat /\ arrived <= MaxArrived
      BY <2>4 DEF TypeInv, ClearInv, RecvInv, Clearing
    <3>2. Clearing \in Nat
      BY DEF Clearing
    <3>3. cleared <= arrived
      BY <2>4, <3>1, <3>2, FirstOfFour
    <3>4. QED
      BY <3>1, <3>3
  <2>7. QED
    BY <2>1, <2>2, <2>3, <2>5, <2>6 DEF TypeOK, TypeInv, ControlInv, SendInv, RecvInv
<1>2. QED
  BY <1>1, TypeInvInit, TypeInvStep, PTL DEF Spec

----------------------------------------------------------------------------
(* Each direction is a wire.  What is under way to the peer was captured,   *)
(* so a new frame has a greater number.                                    *)

FreshSent == \A f \in ToSet(ToPeer) \cup ToSet(sent) : f.n \in 1..captured

LEMMA ToPeerType == SendInv => ToPeer \in Seq(Captured)
BY Direction, Empty DEF SendInv, ToPeer

\* Nothing happens to the wire.
LEMMA PeerWireSame ==
  ASSUME FreshSent, UNCHANGED <<ToPeer, sent, Sending>>, captured \in Nat,
         captured' = captured \/ captured' = captured + 1
  PROVE  UNCHANGED peer_wire!wire /\ FreshSent'
<1>1. UNCHANGED peer_wire!wire
  BY DEF peer_wire!wire
<1>2. FreshSent'
  BY DEF FreshSent
<1>3. QED
  BY <1>1, <1>2

LEMMA PeerWireCloses ==
  ASSUME SendInv, FreshSent, Sending, ~Sending', UNCHANGED <<sent, captured>>
  PROVE  peer_wire!Close /\ FreshSent'
<1>1. ToPeer' = <<>>
  BY DEF ToPeer
<1>2. peer_wire!Close
  BY <1>1, NumbersOfNone DEF peer_wire!Close
<1>3. FreshSent'
  BY <1>1 DEF FreshSent, ToSet
<1>4. QED
  BY <1>2, <1>3

LEMMA PeerWireEntered ==
  ASSUME SendInv, FreshSent, Sending, Sending', Len(ToPeer) < Capacity + 2,
         NEW f \in Captured, f.n = captured + 1, captured' = captured + 1,
         ToPeer' = Append(ToPeer, f), UNCHANGED sent
  PROVE  peer_wire!Enter(captured + 1) /\ FreshSent'
<1>1. ToPeer \in Seq(Captured) /\ sent \in Seq(Captured) /\ captured \in Nat
  <2>1. ToPeer \in Seq(Captured)
    BY ToPeerType
  <2>2. sent \in Seq(Captured) /\ captured \in 0..MaxCaptured
    BY DEF SendInv
  <2>3. QED
    BY <2>1, <2>2
<1>2. Numbers(ToPeer)' = Append(Numbers(ToPeer), captured + 1)
  BY <1>1, NumbersOfAppend
<1>3. Len(Numbers(ToPeer)) = Len(ToPeer)
  BY <1>1, NumbersType, Bounds DEF Captured
<1>4. \A g \in ToSet(Numbers(ToPeer)) \cup ToSet(Numbers(sent)) : g < captured + 1
  <2> SUFFICES ASSUME NEW s \in {ToPeer, sent}, NEW i \in DOMAIN Numbers(s)
               PROVE  Numbers(s)[i] < captured + 1
    BY DEF ToSet
  <2>1. i \in DOMAIN s /\ Numbers(s)[i] = s[i].n
    BY <1>1 DEF Numbers
  <2>2. s[i].n \in 1..captured
    BY <2>1 DEF FreshSent, ToSet
  <2>3. QED
    BY <1>1, <2>1, <2>2
<1>5. FreshSent'
  <2>1. ToSet(ToPeer') = ToSet(ToPeer) \cup {f}
    BY <1>1, MembersOfAppend
  <2>2. 1..captured' = 1..captured \cup {captured + 1}
    BY <1>1
  <2>3. QED
    BY <1>1, <2>1, <2>2 DEF FreshSent
<1>6. QED
  BY <1>2, <1>3, <1>4, <1>5 DEF peer_wire!Enter, peer_wire!ToSet, ToSet

LEMMA PeerWireLeft ==
  ASSUME SendInv, FreshSent, Sending, Sending', ToPeer # <<>>, ToPeer' = Tail(ToPeer),
         sent' \in {sent, Append(sent, Head(ToPeer))}, UNCHANGED captured
  PROVE  peer_wire!Leave /\ FreshSent'
<1>1. ToPeer \in Seq(Captured) /\ sent \in Seq(Captured) /\ captured \in Nat
  <2>1. ToPeer \in Seq(Captured)
    BY ToPeerType
  <2>2. sent \in Seq(Captured) /\ captured \in 0..MaxCaptured
    BY DEF SendInv
  <2>3. QED
    BY <2>1, <2>2
<1>h. Head(ToPeer) \in Captured
  BY <1>1
<1>2. /\ Numbers(ToPeer) # <<>> /\ Head(Numbers(ToPeer)) = Head(ToPeer).n
      /\ Numbers(ToPeer)' = Tail(Numbers(ToPeer))
  BY <1>1, NumbersOfTail
<1>3. \/ Numbers(sent)' = Numbers(sent)
      \/ Numbers(sent)' = Append(Numbers(sent), Head(ToPeer).n)
  BY <1>1, <1>h, NumbersOfAppend
<1>4. FreshSent'
  <2>1. ToSet(ToPeer') \subseteq ToSet(ToPeer) /\ Head(ToPeer) \in ToSet(ToPeer)
    BY <1>1 DEF ToSet
  <2>2. ToSet(sent') \subseteq ToSet(sent) \cup {Head(ToPeer)}
    BY <1>1 DEF ToSet
  <2>3. QED
    BY <2>1, <2>2 DEF FreshSent
<1>5. QED
  BY <1>2, <1>3, <1>4 DEF peer_wire!Leave

LEMMA Fits ==
  ASSUME NEW a \in Nat, NEW b \in Nat, NEW c \in Nat, NEW m \in Nat,
         a <= 1, b <= m, c = 0
  PROVE  a + b + c < m + 2
OBVIOUS

LEMMA PeerWireStep ==
  ControlInv /\ IdleInv /\ SendInv /\ FreshSent /\ [Next]_vars
    => [peer_wire!NextWire]_(peer_wire!wire) /\ FreshSent'
<1> SUFFICES ASSUME ControlInv, IdleInv, SendInv, FreshSent, [Next]_vars
             PROVE  [peer_wire!NextWire]_(peer_wire!wire) /\ FreshSent'
  OBVIOUS
<1> DEFINE Goal == [peer_wire!NextWire]_(peer_wire!wire) /\ FreshSent'
<1> USE DEF Threads, Labels
<1>n. captured \in Nat
  <2>1. captured \in 0..MaxCaptured
    BY DEF SendInv
  <2>2. QED
    BY <2>1
<1>t. /\ held["tx"] \in Seq(Captured) /\ cap_chan \in Seq(Captured)
      /\ held["capture"] \in Seq(Captured) /\ sent \in Seq(Captured)
      /\ Len(held["tx"]) <= 1 /\ Len(held["capture"]) <= 1 /\ Len(cap_chan) <= Capacity
  BY DEF SendInv
<1>1. ASSUME UNCHANGED <<ToPeer, sent, captured, Sending>> PROVE Goal
  BY <1>n, <1>1, PeerWireSame
<1>2. ASSUME NEW t \in {"rx", "inject"}, NEW label \in Labels, Goto(t, label),
             UNCHANGED held \/ \E frames : Hold(t, frames), UNCHANGED to_peer
      PROVE  Goal
  <2>1. pc'["main"] = pc["main"] /\ pc'["tx"] = pc["tx"]
    BY <1>2, Went
  <2>2. held'["tx"] = held["tx"] /\ held'["capture"] = held["capture"]
    BY <1>2, Held
  <2>3. Sending' = Sending
    BY <2>1 DEF Sending, Serving
  <2>4. ToPeer' = ToPeer /\ sent' = sent /\ captured' = captured
    BY <1>2, <2>2, <2>3 DEF ToPeer, to_peer
  <2>5. QED
    BY <1>1, <2>3, <2>4
<1>3. ASSUME NEW label \in Labels, Goto("main", label), Serving,
             UNCHANGED <<held, to_peer>>
      PROVE  Goal
  <2>1. pc'["tx"] = pc["tx"]
    BY <1>3, Went
  <2>2. sent' = sent /\ captured' = captured /\ cap_chan' = cap_chan /\ held' = held
    BY <1>3 DEF to_peer
  <2>3. CASE Sending /\ ~Sending'
    BY <2>2, <2>3, PeerWireCloses DEF peer_wire!NextWire
  <2>4. CASE Sending = Sending'
    BY <1>1, <2>2, <2>4 DEF ToPeer
  <2>5. QED
    BY <1>3, <2>1, <2>3, <2>4 DEF Sending
<1>4. CASE MainStep \/ ctrl_c
  BY <1>3, <1>4 DEF MainStep, build_capture_filter, start, main_select, ctrl_c, Up, Serving
<1>5. CASE next_packet
  <2>1. PICK kind \in Kinds \ capture_filter :
           Hold("capture", <<[n |-> captured + 1, kind |-> kind]>>)
    BY <1>5 DEF next_packet
  <2> DEFINE f == [n |-> captured + 1, kind |-> kind]
  <2>2. f \in Captured /\ f.n = captured + 1
    <3>1. captured + 1 \in 1..MaxCaptured
      BY <1>5, <1>n, Bounds DEF next_packet
    <3>2. QED
      BY <3>1 DEF Captured
  <2>3. Hold("capture", <<f>>)
    BY <2>1
  <2> HIDE DEF f
  <2>4. held'["capture"] = <<f>> /\ held'["tx"] = held["tx"]
    BY <2>3, Held
  <2>5. pc'["main"] = pc["main"] /\ pc'["tx"] = pc["tx"]
    BY <1>5, Went DEF next_packet
  <2>6. Sending' = Sending
    BY <2>5 DEF Sending, Serving
  <2>7. captured' = captured + 1 /\ cap_chan' = cap_chan /\ sent' = sent
        /\ held["capture"] = <<>>
    BY <1>5 DEF next_packet, IdleInv
  <2>8. CASE Sending
    <3>1. ToPeer = held["tx"] \o cap_chan \o <<>>
      BY <2>7, <2>8 DEF ToPeer
    <3>2. ToPeer' = held["tx"] \o cap_chan \o <<f>>
      BY <2>4, <2>6, <2>7, <2>8 DEF ToPeer
    <3>3. ToPeer' = Append(ToPeer, f)
      BY <1>t, <2>2, <3>1, <3>2, TakenIn
    <3>4. Len(ToPeer) < Capacity + 2
      <4>1. Len(ToPeer) = Len(held["tx"]) + Len(cap_chan) + 0
        BY <1>t, <3>1, Direction, Empty
      <4>2. Len(held["tx"]) \in Nat /\ Len(cap_chan) \in Nat
        BY <1>t, Lengths
      <4>3. QED
        BY <1>t, <4>1, <4>2, Fits, Bounds
    <3>5. peer_wire!Enter(captured + 1) /\ FreshSent'
      BY <2>2, <2>6, <2>7, <2>8, <3>3, <3>4, PeerWireEntered
    <3>6. captured + 1 \in 1..MaxCaptured
      BY <2>2 DEF Captured
    <3>7. QED
      BY <3>5, <3>6 DEF peer_wire!NextWire
  <2>9. CASE ~Sending
    <3>1. ToPeer' = ToPeer
      BY <2>6, <2>9 DEF ToPeer
    <3>2. QED
      BY <1>n, <2>6, <2>7, <3>1, PeerWireSame
  <2>10. QED
    BY <2>8, <2>9
<1>6. CASE capture_send
  <2>1. held'["capture"] = <<>> /\ held'["tx"] = held["tx"]
    BY <1>6, Held DEF capture_send
  <2>2. pc'["main"] = pc["main"] /\ pc'["tx"] = pc["tx"]
    BY <1>6, Went DEF capture_send
  <2>3. Sending' = Sending
    BY <2>2 DEF Sending, Serving
  <2>4. sent' = sent /\ captured' = captured
    BY <1>6 DEF capture_send
  <2>5. ToPeer' = ToPeer
    <3>1. CASE Sending
      <4>1. cap_chan' = cap_chan \o held["capture"]
        BY <1>6, <3>1 DEF capture_send, Sending
      <4>2. ToPeer' = held["tx"] \o (cap_chan \o held["capture"]) \o <<>>
        BY <2>1, <2>3, <3>1, <4>1 DEF ToPeer
      <4>3. ToPeer = held["tx"] \o cap_chan \o held["capture"]
        BY <3>1 DEF ToPeer
      <4>4. \A a, b, c \in Seq(Captured) : a \o (b \o c) \o <<>> = a \o b \o c
        BY HandedOn
      <4>5. QED
        BY <1>t, <4>2, <4>3, <4>4
    <3>2. CASE ~Sending
      BY <2>3, <3>2 DEF ToPeer
    <3>3. QED
      BY <3>1, <3>2
  <2>6. QED
    BY <1>1, <2>3, <2>4, <2>5
<1>7. CASE tx_recv
  <2>1. held["tx"] = <<>> /\ Sending /\ sent' = sent /\ captured' = captured
    BY <1>7 DEF tx_recv, IdleInv, Sending, Serving, Up
  <2>2. ToPeer = <<>> \o cap_chan \o held["capture"]
    BY <2>1 DEF ToPeer
  <2>3. CASE /\ cap_chan # <<>> /\ Goto("tx", "send")
             /\ Hold("tx", <<Head(cap_chan)>>) /\ cap_chan' = Tail(cap_chan)
    <3>1. held'["tx"] = <<Head(cap_chan)>> /\ held'["capture"] = held["capture"]
      BY <2>3, Held
    <3>2. Sending'
      BY <2>1, <2>3, Went DEF Sending, Serving
    <3>3. ToPeer' = <<Head(cap_chan)>> \o Tail(cap_chan) \o held["capture"]
      BY <2>3, <3>1, <3>2 DEF ToPeer
    <3>4. ToPeer' = ToPeer
      BY <1>t, <2>2, <2>3, <3>3, TakenOut
    <3>5. QED
      BY <1>1, <2>1, <3>2, <3>4
  <2>4. CASE Goto("tx", "ended")
    <3>1. ~Sending'
      BY <2>4, Went DEF Sending
    <3>2. QED
      BY <2>1, <3>1, PeerWireCloses DEF peer_wire!NextWire
  <2>5. QED
    BY <1>7, <2>3, <2>4 DEF tx_recv
<1>8. CASE tx_send_to
  <2>1. Sending /\ captured' = captured
    BY <1>8 DEF tx_send_to, Sending, Serving, Up
  <2>2. held'["tx"] = <<>> /\ held'["capture"] = held["capture"]
    BY <1>8, Held DEF tx_send_to
  <2>3. CASE Goto("tx", "ended") /\ UNCHANGED sent
    <3>1. ~Sending'
      BY <2>3, Went DEF Sending
    <3>2. QED
      BY <2>1, <2>3, <3>1, PeerWireCloses DEF peer_wire!NextWire
  <2>4. ASSUME NEW label \in {"idle", "notice"}, Goto("tx", label), UNCHANGED cap_chan,
               sent' \in {sent, sent \o held["tx"]}
        PROVE  Goal
    <3>1. Sending'
      BY <2>1, <2>4, Went DEF Sending, Serving
    <3>2. ToPeer = held["tx"] \o cap_chan \o held["capture"]
      BY <2>1 DEF ToPeer
    <3>3. ToPeer' = <<>> \o cap_chan \o held["capture"]
      BY <2>2, <2>4, <3>1 DEF ToPeer
    <3>4. CASE held["tx"] = <<>>
      <4>1. sent' = sent
        BY <1>t, <2>4, <3>4
      <4>2. ToPeer' = ToPeer
        BY <3>2, <3>3, <3>4
      <4>3. QED
        BY <1>1, <2>1, <3>1, <4>1, <4>2
    <3>5. CASE held["tx"] # <<>>
      <4> DEFINE f == held["tx"][1]
      <4>1. f \in Captured /\ held["tx"] = <<f>>
        BY <1>t, <3>5, Only
      <4> HIDE DEF f
      <4>2. /\ ToPeer # <<>> /\ Head(ToPeer) = f
            /\ ToPeer' = Tail(ToPeer)
        <5>1. ToPeer = <<f>> \o cap_chan \o held["capture"]
          BY <3>2, <4>1
        <5>2. \A b, c \in Seq(Captured) :
                /\ <<f>> \o b \o c # <<>> /\ Head(<<f>> \o b \o c) = f
                /\ Tail(<<f>> \o b \o c) = <<>> \o b \o c
          BY <4>1, LetGo
        <5>3. QED
          BY <1>t, <3>3, <5>1, <5>2
      <4>3. sent' = sent \/ sent' = Append(sent, f)
        BY <1>t, <2>4, <4>1
      <4>4. peer_wire!Leave /\ FreshSent'
        BY <2>1, <3>1, <4>2, <4>3, PeerWireLeft
      <4>5. QED
        BY <4>4 DEF peer_wire!NextWire
    <3>6. QED
      BY <3>4, <3>5
  <2>5. QED
    BY <1>8, <2>3, <2>4 DEF tx_send_to
<1>9. CASE RxStep \/ InjectStep \/ io_error("rx")
  BY <1>2, <1>9 DEF RxStep, InjectStep, rx_recv_from, notice, rx_clear, rx_send,
     blocking_recv, sendpacket, io_error
<1>10. CASE notice("tx")
  <2>1. pc'["main"] = pc["main"] /\ pc'["tx"] = "idle" /\ pc["tx"] = "notice"
    BY <1>10, Went DEF notice
  <2>2. Sending' = Sending
    BY <2>1 DEF Sending, Serving
  <2>3. QED
    BY <1>1, <1>10, <2>2 DEF notice, ToPeer, to_peer
<1>11. CASE io_error("capture")
  <2>1. pc'["main"] = pc["main"] /\ pc'["tx"] = pc["tx"]
    BY <1>11, Went DEF io_error
  <2>2. Sending' = Sending
    BY <2>1 DEF Sending, Serving
  <2>3. QED
    BY <1>1, <1>11, <2>2 DEF io_error, ToPeer, to_peer
<1>12. CASE datagram \/ port_unreachable \/ UNCHANGED vars
  BY <1>1, <1>12 DEF datagram, port_unreachable, vars, ToPeer, Sending, Serving, to_peer
<1>13. QED
  BY <1>4, <1>5, <1>6, <1>7, <1>8, <1>9, <1>10, <1>11, <1>12
  DEF Next, CaptureStep, TxStep, Environment

----------------------------------------------------------------------------
(* Task B takes datagrams from the socket in the order of their numbers.    *)

Taken == arrived - Len(socket)

SocketInv == Latest(socket, arrived)

FreshRecv == nic_wire!Known(Taken)

LEMMA SocketType == RecvInv => socket \in Seq(Nat) /\ arrived \in 0..MaxArrived
<1> SUFFICES ASSUME RecvInv PROVE socket \in Seq(Nat) /\ arrived \in 0..MaxArrived
  OBVIOUS
<1>1. socket \in Seq(Arrived) /\ arrived \in 0..MaxArrived
  BY DEF RecvInv
<1>2. \A s \in Seq(Arrived) : s \in Seq(Nat)
  BY Bounds DEF Arrived
<1>3. QED
  BY <1>1, <1>2

LEMMA FirstAtSocket ==
  ASSUME SocketInv, RecvInv, socket # <<>>
  PROVE  /\ Head(socket) = Taken + 1 /\ Taken + 1 \in 1..MaxArrived
         /\ arrived - Len(Tail(socket)) = Taken + 1
<1>1. socket \in Seq(Nat) /\ arrived \in 0..MaxArrived
  BY SocketType
<1>2. arrived \in Nat /\ 1..arrived \subseteq 1..MaxArrived
  BY <1>1, Bounds
<1>3. QED
  BY <1>1, <1>2, LatestFirst DEF SocketInv, Taken

LEMMA SocketStep == RecvInv /\ SocketInv /\ [Next]_vars => SocketInv'
<1> SUFFICES ASSUME RecvInv, SocketInv, [Next]_vars PROVE SocketInv'
  OBVIOUS
<1>1. socket \in Seq(Nat) /\ arrived \in Nat
  <2>1. socket \in Seq(Nat) /\ arrived \in 0..MaxArrived
    BY SocketType
  <2>2. QED
    BY <2>1
<1>2. CASE UNCHANGED <<arrived, socket>>
  BY <1>2 DEF SocketInv
<1>3. CASE datagram
  BY <1>1, <1>3, LatestMore DEF SocketInv, datagram
<1>4. CASE rx_recv_from
  BY <1>1, <1>2, <1>4, LatestFirst DEF SocketInv, rx_recv_from
<1>5. QED
  BY <1>2, <1>3, <1>4 DEF Next, MainStep, CaptureStep, TxStep, RxStep, InjectStep,
     Environment, build_capture_filter, start, main_select, ctrl_c, capture_send,
     tx_recv, tx_send_to, notice, rx_clear, rx_send, blocking_recv, sendpacket,
     next_packet, port_unreachable, io_error, vars, to_nic

LEMMA ToNicType == RecvInv => ToNic \in Seq(Arrived) /\ injected \in Seq(Arrived)
BY Direction, Empty DEF RecvInv, ToNic

LEMMA NicWireStep ==
  ControlInv /\ IdleInv /\ RecvInv /\ SocketInv /\ FreshRecv /\ [Next]_vars
    => [nic_wire!NextWire]_(nic_wire!wire) /\ FreshRecv'
<1> SUFFICES ASSUME ControlInv, IdleInv, RecvInv, SocketInv, FreshRecv, [Next]_vars
             PROVE  [nic_wire!NextWire]_(nic_wire!wire) /\ FreshRecv'
  OBVIOUS
<1> DEFINE Goal == [nic_wire!NextWire]_(nic_wire!wire) /\ FreshRecv'
<1> USE DEF Threads, Labels
<1>t. /\ held["inject"] \in Seq(Arrived) /\ inj_chan \in Seq(Arrived)
      /\ held["rx"] \in Seq(Arrived) /\ injected \in Seq(Arrived)
      /\ Len(held["inject"]) <= 1 /\ Len(held["rx"]) <= 1 /\ Len(inj_chan) <= Capacity
  BY DEF RecvInv
<1>n. ToNic \in Seq(Nat) /\ injected \in Seq(Nat)
  <2>1. \A s \in Seq(Arrived) : s \in Seq(Nat)
    BY Bounds DEF Arrived
  <2>2. QED
    BY <2>1, ToNicType
<1>k. Taken \in Nat /\ nic_wire!Known(Taken)
  BY DEF SocketInv, Latest, Taken, FreshRecv
<1>1. ASSUME UNCHANGED <<ToNic, injected, Serving, arrived, socket>> PROVE Goal
  <2>1. UNCHANGED nic_wire!wire
    BY <1>1 DEF nic_wire!wire
  <2>2. Taken' = Taken
    BY <1>1 DEF Taken
  <2>3. QED
    BY <1>1, <2>1, <2>2 DEF FreshRecv, nic_wire!Known
<1>2. ASSUME Serving, ~Serving', UNCHANGED to_nic PROVE Goal
  <2>1. ToNic' = <<>>
    BY <1>2 DEF ToNic
  <2>2. Taken' = Taken /\ injected' = injected
    BY <1>2 DEF Taken, to_nic
  <2>3. /\ nic_wire!NextWire
        /\ nic_wire!UpTo(ToNic', Taken) /\ nic_wire!UpTo(injected', Taken)
    <3>1. Serving' = FALSE
      BY <1>2 DEF Serving
    <3>2. QED
      BY <1>2, <1>k, <2>1, <2>2, <3>1, nic_wire!Closes
  <2>4. QED
    BY <2>2, <2>3 DEF FreshRecv, nic_wire!Known
<1>3. CASE MainStep \/ ctrl_c
  <2>1. Serving /\ UNCHANGED <<held, to_nic>>
    BY <1>3 DEF MainStep, build_capture_filter, start, main_select, ctrl_c, Up, Serving
  <2>2. CASE Serving'
    BY <1>1, <2>1, <2>2 DEF ToNic, to_nic
  <2>3. QED
    BY <1>2, <2>1, <2>2
<1>4. CASE CaptureStep \/ TxStep \/ next_packet \/ io_error("capture")
  <2>1. UNCHANGED to_nic /\ held'["rx"] = held["rx"] /\ held'["inject"] = held["inject"]
    BY <1>4, Held DEF CaptureStep, TxStep, capture_send, tx_recv, tx_send_to, notice,
       next_packet, io_error
  <2>2. pc'["main"] = pc["main"]
    BY <1>4, Went DEF CaptureStep, TxStep, capture_send, tx_recv, tx_send_to, notice,
       next_packet, io_error
  <2>3. QED
    BY <1>1, <2>1, <2>2 DEF ToNic, to_nic, Serving
<1>5. CASE notice("rx") \/ io_error("rx") \/ rx_clear
  <2>1. UNCHANGED <<to_nic, held>>
    BY <1>5 DEF notice, io_error, rx_clear
  <2>2. pc'["main"] = pc["main"]
    BY <1>5, Went DEF notice, io_error, rx_clear
  <2>3. QED
    BY <1>1, <2>1, <2>2 DEF ToNic, to_nic, Serving
<1>6. CASE datagram
  <2>1. UNCHANGED <<ToNic, injected, Serving>>
    BY <1>6 DEF datagram, ToNic, Serving
  <2>2. UNCHANGED nic_wire!wire
    BY <2>1 DEF nic_wire!wire
  <2>3. Taken' = Taken
    <3>1. socket \in Seq(Nat) /\ arrived \in 0..MaxArrived
      BY SocketType
    <3>2. arrived \in Nat
      BY <3>1
    <3>3. QED
      BY <1>6, <3>1, <3>2, LatestMore DEF datagram, SocketInv, Taken
  <2>4. QED
    BY <2>1, <2>2, <2>3 DEF FreshRecv, nic_wire!Known
<1>7. CASE port_unreachable \/ UNCHANGED vars
  BY <1>1, <1>7 DEF port_unreachable, vars, ToNic, Serving, to_nic
<1>8. CASE rx_recv_from
  <2>1. pc'["main"] = pc["main"] /\ Serving /\ Serving'
    BY <1>8, Went DEF rx_recv_from, Up, Serving
  <2>2. held["rx"] = <<>>
    BY <1>8 DEF rx_recv_from, IdleInv
  <2>3. CASE UNCHANGED <<held, socket>>
    BY <1>1, <1>8, <2>1, <2>3 DEF rx_recv_from, ToNic
  <2>4. CASE /\ socket # <<>> /\ Hold("rx", <<Head(socket)>>)
             /\ socket' = Tail(socket)
    <3>1. held'["rx"] = <<Taken + 1>> /\ held'["inject"] = held["inject"]
      BY <2>4, Held, FirstAtSocket
    <3>2. inj_chan' = inj_chan /\ injected' = injected /\ arrived' = arrived
      BY <1>8 DEF rx_recv_from
    <3>3. Taken' = Taken + 1 /\ Taken + 1 \in 1..MaxArrived
      BY <2>4, <3>2, FirstAtSocket DEF Taken
    <3>4. ToNic = held["inject"] \o inj_chan \o <<>>
          /\ ToNic' = held["inject"] \o inj_chan \o <<Taken + 1>>
      BY <2>1, <2>2, <3>1, <3>2 DEF ToNic
    <3>5. ToNic' = Append(ToNic, Taken + 1)
      <4>1. Taken + 1 \in Arrived
        BY <3>3 DEF Arrived
      <4>2. QED
        BY <1>t, <3>4, <4>1, TakenIn
    <3>6. Len(ToNic) < Capacity + 2
      <4>1. Len(ToNic) = Len(held["inject"]) + Len(inj_chan) + 0
        BY <1>t, <3>4, Direction, Empty
      <4>2. Len(held["inject"]) \in Nat /\ Len(inj_chan) \in Nat
        BY <1>t, Lengths
      <4>3. QED
        BY <1>t, <4>1, <4>2, Fits, Bounds
    <3>7. /\ nic_wire!NextWire
          /\ nic_wire!UpTo(ToNic', Taken + 1) /\ nic_wire!UpTo(injected', Taken + 1)
      BY <1>n, <1>k, <2>1, <3>2, <3>3, <3>5, <3>6, nic_wire!Enters
    <3>8. QED
      BY <3>3, <3>7 DEF FreshRecv, nic_wire!Known
  <2>5. QED
    BY <1>8, <2>3, <2>4 DEF rx_recv_from
<1>9. CASE rx_send
  <2>1. pc'["main"] = pc["main"] /\ Serving /\ Serving'
    BY <1>9, Went DEF rx_send, Up, Serving
  <2>2. held'["rx"] = <<>> /\ held'["inject"] = held["inject"]
        /\ inj_chan' = inj_chan \o held["rx"]
    BY <1>9, Held DEF rx_send
  <2>3. ToNic' = ToNic
    <3>1. \A a, b, c \in Seq(Arrived) : a \o (b \o c) \o <<>> = a \o b \o c
      BY HandedOn
    <3>2. ToNic' = held["inject"] \o (inj_chan \o held["rx"]) \o <<>>
          /\ ToNic = held["inject"] \o inj_chan \o held["rx"]
      BY <2>1, <2>2 DEF ToNic
    <3>3. QED
      BY <1>t, <3>1, <3>2
  <2>4. QED
    BY <1>1, <1>9, <2>1, <2>3 DEF rx_send
<1>10. CASE blocking_recv
  <2>1. pc'["main"] = pc["main"] /\ Serving /\ Serving'
    BY <1>10, Went DEF blocking_recv, Up, Serving
  <2>2. held["inject"] = <<>>
    BY <1>10 DEF blocking_recv, IdleInv
  <2>3. CASE UNCHANGED <<held, inj_chan>>
    BY <1>1, <1>10, <2>1, <2>3 DEF blocking_recv, ToNic
  <2>4. CASE /\ inj_chan # <<>> /\ Hold("inject", <<Head(inj_chan)>>)
             /\ inj_chan' = Tail(inj_chan)
    <3>1. held'["inject"] = <<Head(inj_chan)>> /\ held'["rx"] = held["rx"]
      BY <2>4, Held
    <3>2. ToNic = <<>> \o inj_chan \o held["rx"]
          /\ ToNic' = <<Head(inj_chan)>> \o Tail(inj_chan) \o held["rx"]
      BY <2>1, <2>2, <2>4, <3>1 DEF ToNic
    <3>3. ToNic' = ToNic
      BY <1>t, <2>4, <3>2, TakenOut
    <3>4. QED
      BY <1>1, <1>10, <2>1, <3>3 DEF blocking_recv
  <2>5. QED
    BY <1>10, <2>3, <2>4 DEF blocking_recv
<1>11. CASE sendpacket
  <2>1. pc'["main"] = pc["main"] /\ Serving /\ Serving'
    BY <1>11, Went DEF sendpacket, Up, Serving
  <2>2. held'["inject"] = <<>> /\ held'["rx"] = held["rx"]
    BY <1>11, Held DEF sendpacket
  <2>3. UNCHANGED <<inj_chan, arrived, socket>>
        /\ injected' \in {injected, injected \o held["inject"]}
    BY <1>11 DEF sendpacket
  <2>4. ToNic = held["inject"] \o inj_chan \o held["rx"]
        /\ ToNic' = <<>> \o inj_chan \o held["rx"]
    BY <2>1, <2>2, <2>3 DEF ToNic
  <2>5. CASE held["inject"] = <<>>
    <3>1. injected' = injected
      BY <1>t, <2>3, <2>5
    <3>2. QED
      BY <1>1, <2>1, <2>3, <2>4, <2>5, <3>1
  <2>6. CASE held["inject"] # <<>>
    <3> DEFINE f == held["inject"][1]
    <3>1. f \in Arrived /\ held["inject"] = <<f>>
      BY <1>t, <2>6, Only
    <3> HIDE DEF f
    <3>2. ToNic # <<>> /\ Head(ToNic) = f /\ ToNic' = Tail(ToNic)
      <4>1. ToNic = <<f>> \o inj_chan \o held["rx"]
        BY <2>4, <3>1
      <4>2. \A b, c \in Seq(Arrived) :
              /\ <<f>> \o b \o c # <<>> /\ Head(<<f>> \o b \o c) = f
              /\ Tail(<<f>> \o b \o c) = <<>> \o b \o c
        BY <3>1, LetGo
      <4>3. /\ ToNic # <<>> /\ Head(ToNic) = f
            /\ Tail(ToNic) = <<>> \o inj_chan \o held["rx"]
        BY <1>t, <4>1, <4>2
      <4>4. QED
        BY <2>4, <4>3
    <3>3. injected' = injected \/ injected' = Append(injected, f)
      BY <1>t, <2>3, <3>1
    <3>4. /\ nic_wire!NextWire
          /\ nic_wire!UpTo(ToNic', Taken) /\ nic_wire!UpTo(injected', Taken)
      BY <1>n, <1>k, <2>1, <3>2, <3>3, nic_wire!Leaves
    <3>5. Taken' = Taken
      BY <2>3 DEF Taken
    <3>6. QED
      BY <3>4, <3>5 DEF FreshRecv, nic_wire!Known
  <2>7. QED
    BY <2>5, <2>6
<1>12. QED
  BY <1>3, <1>4, <1>5, <1>6, <1>7, <1>8, <1>9, <1>10, <1>11
  DEF Next, RxStep, InjectStep, Environment

WireInv ==
  ControlInv /\ IdleInv /\ SendInv /\ RecvInv /\ FreshSent /\ SocketInv /\ FreshRecv

LEMMA WireInvInit == Init => WireInv /\ peer_wire!InitWire /\ nic_wire!InitWire
<1> SUFFICES ASSUME Init PROVE WireInv /\ peer_wire!InitWire /\ nic_wire!InitWire
  OBVIOUS
<1>1. ControlInv /\ IdleInv /\ SendInv /\ RecvInv
  BY TypeInvInit DEF TypeInv
<1>2. /\ sent = <<>> /\ injected = <<>> /\ socket = <<>> /\ arrived = 0
      /\ cap_chan = <<>> /\ inj_chan = <<>>
  BY DEF Init
<1>3. /\ held["tx"] = <<>> /\ held["capture"] = <<>> /\ held["rx"] = <<>>
      /\ held["inject"] = <<>>
  BY DEF Init, Threads
<1>4. Serving = TRUE /\ Sending = TRUE
  BY DEF Init, Serving, Sending, Threads
<1>5. ToPeer = <<>> /\ ToNic = <<>>
  BY <1>2, <1>3, <1>4 DEF ToPeer, ToNic
<1>6. FreshSent
  BY <1>2, <1>5 DEF FreshSent, ToSet
<1>7. SocketInv
  BY <1>2, LatestNone DEF SocketInv
<1>8. FreshRecv
  BY <1>2, <1>5, nic_wire!UpToNone DEF FreshRecv, nic_wire!Known
<1>9. peer_wire!InitWire /\ nic_wire!InitWire
  BY <1>2, <1>4, <1>5, NumbersOfNone DEF peer_wire!InitWire, nic_wire!InitWire
<1>10. QED
  BY <1>1, <1>6, <1>7, <1>8, <1>9 DEF WireInv

LEMMA WireInvStep ==
  WireInv /\ [Next]_vars
    => /\ WireInv'
       /\ [peer_wire!NextWire]_(peer_wire!wire) /\ [nic_wire!NextWire]_(nic_wire!wire)
<1> SUFFICES ASSUME WireInv, [Next]_vars
             PROVE  /\ WireInv' /\ [peer_wire!NextWire]_(peer_wire!wire)
                    /\ [nic_wire!NextWire]_(nic_wire!wire)
  OBVIOUS
<1>1. /\ ControlInv /\ IdleInv /\ SendInv /\ RecvInv /\ FreshSent /\ SocketInv
      /\ FreshRecv
  BY DEF WireInv
<1>2. ControlInv' /\ IdleInv' /\ SendInv' /\ RecvInv'
  BY <1>1, ControlInvStep, IdleInvStep, SendStep, RecvStep
<1>3. FreshSent' /\ [peer_wire!NextWire]_(peer_wire!wire)
  BY <1>1, PeerWireStep
<1>4. SocketInv'
  BY <1>1, SocketStep
<1>5. FreshRecv' /\ [nic_wire!NextWire]_(nic_wire!wire)
  BY <1>1, NicWireStep
<1>6. QED
  BY <1>2, <1>3, <1>4, <1>5 DEF WireInv

\* Frames captured reach the peer's address as a wire delivers them, whatever
\* the four threads, the network and Ctrl+C do in between: in order, once, and
\* lost only at the socket or with the server.
THEOREM ServerSendsInOrder == Spec => ToPeerIsWire
BY WireInvInit, WireInvStep, PTL DEF Spec, ToPeerIsWire, peer_wire!WireSpec

\* Datagrams received reach the NIC as a wire delivers them: in order, once,
\* and lost only where sendpacket refuses one or with the server.
THEOREM ServerInjectsInOrder == Spec => ToNicIsWire
BY WireInvInit, WireInvStep, PTL DEF Spec, ToNicIsWire, nic_wire!WireSpec

\* So what the server has sent is in the order of its capture, what it has
\* injected in the order of its arrival, and nothing is there twice.
THEOREM ServerKeepsOrder == Spec => [](peer_wire!InOrder /\ nic_wire!InOrder)
<1>1. 1..MaxCaptured \subseteq Nat /\ 1..MaxArrived \subseteq Nat
  BY Bounds
<1>2. peer_wire!WireSpec => []peer_wire!InOrder
  BY <1>1, peer_wire!WireKeepsOrder
<1>3. nic_wire!WireSpec => []nic_wire!InOrder
  BY <1>1, nic_wire!WireKeepsOrder
<1>4. QED
  BY <1>2, <1>3, ServerSendsInOrder, ServerInjectsInOrder, PTL
  DEF ToPeerIsWire, ToNicIsWire
=============================================================================
