-------------------------- MODULE ClientData_proofs --------------------------
(***************************************************************************)
(* What is proved of the data plane of client mode, for channels of any    *)
(* capacity, any peers, and any number of frames, switches and resets.     *)
(***************************************************************************)
EXTENDS ClientDataProperties, FrameSequences

LEMMA Bounds ==
  /\ Capacity \in Nat /\ Capacity > 0 /\ MaxRead \in Nat /\ MaxArrived \in Nat
  /\ MaxSwitches \in Nat /\ MaxResets \in Nat
BY DataAssumption

----------------------------------------------------------------------------
(* Where the threads are, the peer, and the mark.  Who is about to note a  *)
(* reset knows whom to blame.                                              *)

ControlInv ==
  /\ pc \in [Threads -> Labels]
  /\ remote_shared \in Peers /\ unreachable_peer \in Peers \cup {None}
  /\ blamed \in [Senders -> Peers \cup {None}]
  /\ \A t \in Senders : pc[t] = "notice" => blamed[t] \in Peers
  /\ told \subseteq Peers

(* The TX task has a frame for a peer whenever it is about to send.        *)
HandInv ==
  /\ DOMAIN held = Threads
  /\ pc["tx"] = "send" => held["tx"] # <<>> /\ held["tx"][1].to \in Peers

LEMMA ControlInvInit == Init => ControlInv /\ HandInv
<1> SUFFICES ASSUME Init PROVE ControlInv /\ HandInv
  OBVIOUS
<1>1. pc \in [Threads -> Labels] /\ \A t \in Senders : pc[t] = "idle"
  BY DEF Init, Threads, Labels, Senders
<1>2. ControlInv
  BY <1>1 DEF ControlInv, Init
<1>3. HandInv
  BY <1>1 DEF HandInv, Init, Senders
<1>4. QED
  BY <1>2, <1>3

LEMMA ControlInvStep == ControlInv /\ HandInv /\ [Next]_vars => ControlInv'
<1> SUFFICES ASSUME ControlInv, HandInv, [Next]_vars PROVE ControlInv'
  OBVIOUS
<1> USE DEF ControlInv, Senders
<1> DEFINE Same == UNCHANGED <<mark, blamed, peer>>
<1>1. ASSUME NEW t \in Threads, NEW label \in Labels \ {"notice"}, Goto(t, label)
      PROVE  /\ pc' \in [Threads -> Labels]
             /\ \A u \in Senders : pc'[u] = "notice" => pc[u] = "notice" /\ u # t
  BY <1>1 DEF Goto, Threads
<1>2. ASSUME NEW t \in Threads, NEW label \in Labels \ {"notice"}, Goto(t, label),
             Same
      PROVE  ControlInv'
  BY <1>1, <1>2 DEF peer, mark
<1>3. ASSUME pc' = pc, Same PROVE ControlInv'
  BY <1>3 DEF peer, mark
<1> HIDE DEF Same
<1> USE DEF Threads, Labels
<1>4. CASE MainStep \/ ctrl_c \/ stdin_closed
  BY <1>2, <1>4 DEF MainStep, main_select, cleaned_up, ctrl_c, stdin_closed, Same
<1>5. CASE ReadStep \/ WriteStep
  BY <1>2, <1>5 DEF ReadStep, WriteStep, open_device, tap_send, write_recv,
     tap_write, Same
<1>6. CASE tx_recv
  BY <1>2, <1>6 DEF tx_recv, Same
<1>7. CASE tx_send_to
  <2>1. CASE Goto("tx", "notice")
    <3>1. held["tx"][1].to \in Peers
      BY <1>7 DEF tx_send_to, HandInv
    <3>2. QED
      BY <1>7, <2>1, <3>1 DEF tx_send_to, Goto, peer, mark
  <2>2. CASE Goto("tx", "idle") /\ UNCHANGED blamed
    BY <1>2, <1>7, <2>2 DEF tx_send_to, Same
  <2>3. CASE Goto("tx", "ended") /\ UNCHANGED blamed
    BY <1>2, <1>7, <2>3 DEF tx_send_to, Same
  <2>4. QED
    BY <1>7, <2>1, <2>2, <2>3 DEF tx_send_to
<1>8. ASSUME NEW t \in Senders, notice(t) PROVE ControlInv'
  BY <1>1, <1>8 DEF notice, peer
<1>9. CASE rx_recv_from \/ rx_send
  BY <1>2, <1>9 DEF rx_recv_from, rx_send, Same
<1>10. CASE rx_blame
  BY <1>10 DEF rx_blame, Goto, peer, mark
<1>11. CASE rx_clear \/ StdinStep
  BY <1>1, <1>11 DEF rx_clear, StdinStep, switch_reset, peer
<1>12. CASE \E p \in Peers : switch(p)
  BY <1>1, <1>12 DEF switch
<1>13. CASE tap_read \/ \E t \in {"read", "rx"} : io_error(t)
  BY <1>2, <1>13 DEF tap_read, io_error, Same
<1>14. CASE datagram \/ port_unreachable \/ UNCHANGED vars
  BY <1>3, <1>14 DEF datagram, port_unreachable, vars, Same
<1>15. QED
  BY <1>4, <1>5, <1>6, <1>7, <1>8, <1>9, <1>10, <1>11, <1>12, <1>13, <1>14
  DEF Next, TxStep, RxStep, Environment

LEMMA Held ==
  ASSUME HandInv, NEW t \in Threads, NEW frames, Hold(t, frames)
  PROVE  /\ DOMAIN held' = Threads /\ held'[t] = frames
         /\ \A u \in Threads \ {t} : held'[u] = held[u]
BY DEF HandInv, Hold

LEMMA HandInvStep == ControlInv /\ HandInv /\ [Next]_vars => HandInv'
<1> SUFFICES ASSUME ControlInv, HandInv, [Next]_vars PROVE HandInv'
  OBVIOUS
<1>1. pc \in [Threads -> Labels] /\ remote_shared \in Peers
  BY DEF ControlInv
<1>2. ASSUME NEW t \in Threads \ {"tx"}, NEW label, Goto(t, label),
             UNCHANGED held \/ \E frames : Hold(t, frames)
      PROVE  HandInv'
  <2>1. DOMAIN held' = Threads /\ held'["tx"] = held["tx"]
    BY <1>2, Held DEF HandInv, Threads
  <2>2. pc'["tx"] = pc["tx"]
    BY <1>1, <1>2 DEF Goto, Threads
  <2>3. QED
    BY <2>1, <2>2 DEF HandInv
<1>3. ASSUME DOMAIN held' = Threads, NEW label, label # "send", Goto("tx", label)
      PROVE  HandInv'
  BY <1>1, <1>3 DEF HandInv, Goto, Threads
<1>4. ASSUME UNCHANGED <<pc, held>> PROVE HandInv'
  BY <1>4 DEF HandInv
<1> USE DEF Threads
<1>5. CASE tx_recv
  <2>1. CASE tap_chan # <<>>
    <3> DEFINE frames == <<[n |-> Head(tap_chan), to |-> remote_shared]>>
    <3>1. frames # <<>> /\ frames[1].to = remote_shared
      OBVIOUS
    <3> HIDE DEF frames
    <3>2. Hold("tx", frames)
      BY <1>5, <2>1 DEF tx_recv, frames
    <3>3. QED
      BY <1>1, <3>1, <3>2, Held DEF HandInv
  <2>2. CASE tap_chan = <<>>
    BY <1>3, <1>5, <2>2 DEF tx_recv, HandInv
  <2>3. QED
    BY <2>1, <2>2
<1>6. CASE tx_send_to \/ notice("tx")
  BY <1>3, <1>6, Held DEF tx_send_to, notice, HandInv
<1>7. CASE MainStep \/ ctrl_c \/ stdin_closed \/ StdinStep
           \/ \E p \in Peers : switch(p)
  BY <1>2, <1>7 DEF MainStep, main_select, cleaned_up, ctrl_c, stdin_closed,
     StdinStep, switch_reset, switch
<1>8. CASE ReadStep \/ WriteStep \/ RxStep
  BY <1>2, <1>8 DEF ReadStep, WriteStep, RxStep, open_device, tap_send, write_recv,
     tap_write, rx_recv_from, rx_blame, notice, rx_clear, rx_send
<1>9. CASE tap_read \/ \E t \in {"read", "rx"} : io_error(t)
  BY <1>2, <1>9 DEF tap_read, io_error
<1>10. CASE datagram \/ port_unreachable \/ UNCHANGED vars
  BY <1>4, <1>10 DEF datagram, port_unreachable, vars
<1>11. QED
  BY <1>5, <1>6, <1>7, <1>8, <1>9, <1>10 DEF Next, TxStep, Environment

----------------------------------------------------------------------------
(* The peer's mark is never older than the last switch.                    *)

LEMMA FreshStep ==
  ControlInv /\ HandInv /\ FreshAfterSwitch /\ [Next]_vars => FreshAfterSwitch'
<1> SUFFICES ASSUME ControlInv, HandInv, FreshAfterSwitch, [Next]_vars
             PROVE  FreshAfterSwitch'
  OBVIOUS
<1>1. pc \in [Threads -> Labels] /\ remote_shared \in Peers
  BY DEF ControlInv
<1>2. ASSUME NEW t \in Threads, NEW label, Goto(t, label), label # "reset",
             pc["stdin"] # "reset" \/ t # "stdin", UNCHANGED <<mark, peer>>
      PROVE  FreshAfterSwitch'
  BY <1>1, <1>2 DEF Goto, Threads, FreshAfterSwitch, mark, peer
<1>3. ASSUME UNCHANGED <<pc, mark, peer>> PROVE FreshAfterSwitch'
  BY <1>3 DEF FreshAfterSwitch, mark, peer
<1> USE DEF Threads
<1>4. CASE MainStep \/ ctrl_c \/ stdin_closed
  BY <1>2, <1>4 DEF MainStep, main_select, cleaned_up, ctrl_c, stdin_closed
<1>5. CASE ReadStep \/ WriteStep
  BY <1>2, <1>5 DEF ReadStep, WriteStep, open_device, tap_send, write_recv, tap_write
<1>6. CASE tx_recv \/ tx_send_to
  BY <1>2, <1>6 DEF tx_recv, tx_send_to
<1>7. CASE rx_recv_from \/ rx_blame \/ rx_send
  BY <1>2, <1>7 DEF rx_recv_from, rx_blame, rx_send
<1>8. ASSUME NEW t \in Senders, notice(t) PROVE FreshAfterSwitch'
  BY <1>1, <1>8 DEF notice, Goto, FreshAfterSwitch, Senders, peer
<1>9. CASE rx_clear \/ StdinStep
  BY <1>1, <1>9, DataAssumption DEF rx_clear, StdinStep, switch_reset,
     FreshAfterSwitch, peer
<1>10. CASE \E p \in Peers : switch(p)
  BY <1>1, <1>10 DEF switch, Goto, FreshAfterSwitch
<1>11. CASE tap_read \/ \E t \in {"read", "rx"} : io_error(t)
  BY <1>2, <1>11 DEF tap_read, io_error
<1>12. CASE datagram \/ port_unreachable \/ UNCHANGED vars
  BY <1>3, <1>12 DEF datagram, port_unreachable, vars
<1>13. QED
  BY <1>4, <1>5, <1>6, <1>7, <1>8, <1>9, <1>10, <1>11, <1>12
  DEF Next, TxStep, RxStep, Environment, Senders

\* Between switches the current peer is marked only if a warning has named it
\* since the last one began, however the three tasks that touch the mark and
\* the address interleave.
THEOREM MarksAreFresh == Spec => []FreshAfterSwitch
<1>1. Init => FreshAfterSwitch
  BY DataAssumption DEF Init, FreshAfterSwitch
<1>2. QED
  BY <1>1, ControlInvInit, ControlInvStep, HandInvStep, FreshStep, PTL DEF Spec

----------------------------------------------------------------------------
(* The one frame in hand.                                                  *)

Stray == pc["tx"] = "send" /\ held["tx"][1].to # remote_shared

StrayInv == strays \in {0, 1} /\ (Stray => strays = 0)

LEMMA StrayStep ==
  ControlInv /\ HandInv /\ StrayInv /\ [Next]_vars => StrayInv'
<1> SUFFICES ASSUME ControlInv, HandInv, StrayInv, [Next]_vars PROVE StrayInv'
  OBVIOUS
<1>1. pc \in [Threads -> Labels]
  BY DEF ControlInv
<1>2. ASSUME NEW t \in Threads \ {"tx"}, NEW label, Goto(t, label),
             UNCHANGED held \/ \E frames : Hold(t, frames), UNCHANGED <<peer, strays>>
      PROVE  StrayInv'
  <2>1. held'["tx"] = held["tx"]
    BY <1>2, Held DEF HandInv, Threads
  <2>2. pc'["tx"] = pc["tx"]
    BY <1>1, <1>2 DEF Goto, Threads
  <2>3. QED
    BY <1>2, <2>1, <2>2 DEF StrayInv, Stray, peer
<1>3. ASSUME NEW label, label # "send", Goto("tx", label), strays' \in {0, 1}
      PROVE  StrayInv'
  BY <1>1, <1>3 DEF StrayInv, Stray, Goto, Threads
<1>4. ASSUME UNCHANGED <<pc, held, peer, strays>> PROVE StrayInv'
  BY <1>4 DEF StrayInv, Stray, peer
<1> USE DEF Threads
<1>5. CASE tx_recv
  <2>1. CASE tap_chan # <<>>
    <3> DEFINE frames == <<[n |-> Head(tap_chan), to |-> remote_shared]>>
    <3>1. frames[1].to = remote_shared
      OBVIOUS
    <3> HIDE DEF frames
    <3>2. Hold("tx", frames)
      BY <1>5, <2>1 DEF tx_recv, frames
    <3>3. held'["tx"][1].to = remote_shared
      BY <3>1, <3>2, Held
    <3>4. QED
      BY <1>5, <3>3 DEF tx_recv, StrayInv, Stray, peer
  <2>2. CASE tap_chan = <<>>
    BY <1>3, <1>5, <2>2 DEF tx_recv, StrayInv
  <2>3. QED
    BY <2>1, <2>2
<1>6. CASE tx_send_to
  <2>1. strays' \in {0, 1}
    BY <1>6 DEF tx_send_to, StrayInv, Stray
  <2>2. QED
    BY <1>3, <1>6, <2>1 DEF tx_send_to
<1>7. CASE notice("tx")
  BY <1>3, <1>7 DEF notice, StrayInv
<1>8. CASE \E p \in Peers : switch(p)
  BY <1>8 DEF switch, StrayInv
<1>9. CASE MainStep \/ ctrl_c \/ stdin_closed \/ StdinStep
  BY <1>2, <1>9 DEF MainStep, main_select, cleaned_up, ctrl_c, stdin_closed,
     StdinStep, switch_reset
<1>10. CASE ReadStep \/ WriteStep \/ RxStep
  BY <1>2, <1>10 DEF ReadStep, WriteStep, RxStep, open_device, tap_send, write_recv,
     tap_write, rx_recv_from, rx_blame, notice, rx_clear, rx_send
<1>11. CASE tap_read \/ \E t \in {"read", "rx"} : io_error(t)
  BY <1>2, <1>11 DEF tap_read, io_error
<1>12. CASE datagram \/ port_unreachable \/ UNCHANGED vars
  BY <1>4, <1>12 DEF datagram, port_unreachable, vars
<1>13. QED
  BY <1>5, <1>6, <1>7, <1>8, <1>9, <1>10, <1>11, <1>12 DEF Next, TxStep, Environment

\* Once a switch is done, at most the frame the UDP-TX task already held goes
\* to the peer that was left, whatever waits in the channel.
THEOREM OneStray == Spec => []AtMostOneStray
<1>1. Init => StrayInv
  BY DEF Init, StrayInv, Stray
<1>2. StrayInv => AtMostOneStray
  BY DEF StrayInv, AtMostOneStray
<1>3. QED
  BY <1>1, <1>2, ControlInvInit, ControlInvStep, HandInvStep, StrayStep, PTL DEF Spec

----------------------------------------------------------------------------
(* The types.  How many frames there are where, then which ones.           *)

CountInv ==
  /\ read \in 0..MaxRead /\ arrived \in 0..MaxArrived
  /\ reset_pending \in BOOLEAN /\ resets \in 0..MaxResets
  /\ switches \in 0..MaxSwitches

LEMMA CountStep == CountInv /\ [Next]_vars => CountInv'
<1> SUFFICES ASSUME CountInv, [Next]_vars PROVE CountInv'
  OBVIOUS
<1> USE Bounds DEF CountInv
<1>1. ASSUME UNCHANGED <<read, arrived, icmp, peer>> PROVE CountInv'
  BY <1>1 DEF icmp, peer
<1>2. CASE MainStep \/ ctrl_c \/ stdin_closed \/ StdinStep
  BY <1>1, <1>2 DEF MainStep, main_select, cleaned_up, ctrl_c, stdin_closed,
     StdinStep, switch_reset, to_peer, to_tap
<1>3. CASE ReadStep \/ WriteStep
  BY <1>1, <1>3 DEF ReadStep, WriteStep, open_device, tap_send, write_recv,
     tap_write, to_peer, to_tap
<1>4. CASE tx_recv \/ notice("tx") \/ notice("rx") \/ rx_blame \/ rx_clear \/ rx_send
  BY <1>1, <1>4 DEF tx_recv, notice, rx_blame, rx_clear, rx_send, to_peer, to_tap
<1>5. CASE tx_send_to
  BY <1>5 DEF tx_send_to, to_tap, peer
<1>6. CASE rx_recv_from
  BY <1>6 DEF rx_recv_from, to_peer, peer
<1>7. CASE \E p \in Peers : switch(p)
  BY <1>7 DEF switch, to_peer, to_tap, icmp
<1>8. CASE tap_read
  BY <1>8 DEF tap_read, to_tap, icmp, peer
<1>9. CASE datagram
  BY <1>9 DEF datagram, to_peer, icmp, peer
<1>10. CASE port_unreachable
  BY <1>10 DEF port_unreachable, to_peer, to_tap, peer
<1>11. CASE (\E t \in {"read", "rx"} : io_error(t)) \/ UNCHANGED vars
  BY <1>1, <1>11 DEF io_error, vars, to_peer, to_tap
<1>12. QED
  BY <1>2, <1>3, <1>4, <1>5, <1>6, <1>7, <1>8, <1>9, <1>10, <1>11
  DEF Next, TxStep, RxStep, Environment

(* Which frames, for the provers without the numbers they are.             *)
Taken    == 1..MaxRead
Received == 1..MaxArrived

SendInv ==
  /\ held["read"] \in Seq(Taken) /\ Len(held["read"]) <= 1
  /\ tap_chan \in Seq(Taken) /\ Len(tap_chan) <= Capacity
  /\ held["tx"] \in Seq(Outgoing) /\ Len(held["tx"]) <= 1
  /\ sent \in Seq(Outgoing)

RecvInv ==
  /\ socket \in Seq(Received)
  /\ held["rx"] \in Seq(Received) /\ Len(held["rx"]) <= 1
  /\ udp_chan \in Seq(Received) /\ Len(udp_chan) <= Capacity
  /\ held["write"] \in Seq(Received) /\ Len(held["write"]) <= 1
  /\ written \in Seq(Received)
  /\ held["main"] = <<>> /\ held["stdin"] = <<>>

LEMMA FramesInit == Init => CountInv /\ SendInv /\ RecvInv
<1> SUFFICES ASSUME Init PROVE CountInv /\ SendInv /\ RecvInv
  OBVIOUS
<1>1. \A t \in Threads : held[t] = <<>>
  BY DEF Init
<1>2. Len(<<>>) <= Capacity
  BY Bounds
<1>3. CountInv
  <2>1. reset_pending \in BOOLEAN
    BY DEF Init
  <2>2. read = 0 /\ arrived = 0 /\ resets = 0 /\ switches = 0
    BY DEF Init
  <2>3. QED
    BY <2>1, <2>2, Bounds DEF CountInv
<1>4. SendInv
  BY <1>1, <1>2, Empty DEF Init, SendInv, Threads
<1>5. RecvInv
  BY <1>1, <1>2, Empty DEF Init, RecvInv, Threads
<1>6. QED
  BY <1>3, <1>4, <1>5

LEMMA SendStep ==
  ControlInv /\ HandInv /\ CountInv /\ SendInv /\ [Next]_vars => SendInv'
<1> SUFFICES ASSUME ControlInv, HandInv, CountInv, SendInv, [Next]_vars PROVE SendInv'
  OBVIOUS
<1> USE Bounds DEF SendInv
<1>1. ASSUME NEW t \in Threads \ {"read", "tx"}, NEW frames, Hold(t, frames),
             UNCHANGED <<tap_chan, sent>>
      PROVE  SendInv'
  BY <1>1, Held DEF Threads
<1>2. ASSUME UNCHANGED <<held, tap_chan, sent>> PROVE SendInv'
  BY <1>2
<1>3. CASE tap_read
  <2>1. read + 1 \in Taken
    BY <1>3 DEF tap_read, CountInv, Taken
  <2>2. <<read + 1>> \in Seq(Taken) /\ Len(<<read + 1>>) <= 1
    BY <2>1, One
  <2>3. QED
    BY <1>3, <2>2, Held DEF tap_read, Threads
<1>4. CASE tap_send
  <2>1. tap_chan \o held["read"] \in Seq(Taken)
        /\ Len(tap_chan \o held["read"]) <= Len(tap_chan) + 1
    BY Pushed
  <2>2. held'["read"] = <<>> /\ held'["tx"] = held["tx"]
    BY <1>4, Held DEF tap_send, Threads
  <2>3. \/ tap_chan' = tap_chan
        \/ Len(tap_chan) < Capacity /\ tap_chan' = tap_chan \o held["read"]
    BY <1>4 DEF tap_send
  <2>4. Len(tap_chan) \in Nat /\ Len(tap_chan \o held["read"]) \in Nat
    OBVIOUS
  <2>5. Len(tap_chan') <= Capacity /\ tap_chan' \in Seq(Taken)
    <3>1. CASE tap_chan' = tap_chan
      BY <3>1
    <3>2. CASE /\ Len(tap_chan) < Capacity
               /\ tap_chan' = tap_chan \o held["read"]
      BY <2>1, <2>4, <3>2
    <3>3. QED
      BY <2>3, <3>1, <3>2
  <2>6. QED
    BY <1>4, <2>2, <2>5, Empty DEF tap_send
<1>5. CASE tx_recv
  <2>1. CASE tap_chan # <<>>
    <3>1. Head(tap_chan) \in Taken /\ Tail(tap_chan) \in Seq(Taken)
          /\ Len(Tail(tap_chan)) <= Len(tap_chan)
      BY <2>1, Popped
    <3>2. [n |-> Head(tap_chan), to |-> remote_shared] \in Outgoing
      BY <3>1 DEF Outgoing, ControlInv, Taken
    <3> DEFINE frames == <<[n |-> Head(tap_chan), to |-> remote_shared]>>
    <3>3. frames \in Seq(Outgoing) /\ Len(frames) <= 1
      BY <3>2, One
    <3>4. Hold("tx", frames) /\ tap_chan' = Tail(tap_chan) /\ sent' = sent
      BY <1>5, <2>1 DEF tx_recv
    <3> HIDE DEF frames
    <3>5. held'["tx"] = frames /\ held'["read"] = held["read"]
      BY <3>4, Held DEF Threads
    <3>6. Len(tap_chan') <= Capacity
      BY <3>1, <3>4
    <3>7. QED
      BY <3>1, <3>3, <3>4, <3>5, <3>6
  <2>2. CASE tap_chan = <<>>
    BY <1>2, <1>5, <2>2 DEF tx_recv
  <2>3. QED
    BY <2>1, <2>2
<1>6. CASE tx_send_to
  <2>1. sent \o held["tx"] \in Seq(Outgoing)
    OBVIOUS
  <2>2. held'["tx"] = <<>> /\ held'["read"] = held["read"]
    BY <1>6, Held DEF tx_send_to, Threads
  <2>3. sent' \in Seq(Outgoing)
    BY <1>6, <2>1 DEF tx_send_to
  <2>4. tap_chan' \in Seq(Taken) /\ Len(tap_chan') <= Capacity
    <3>1. tap_chan' = tap_chan \/ tap_chan' = <<>>
      BY <1>6, Zenon DEF tx_send_to
    <3>2. Len(<<>>) <= Capacity
      BY Empty
    <3>3. QED
      BY <3>1, <3>2, Empty
  <2>5. QED
    BY <2>2, <2>3, <2>4, Empty
<1>7. CASE notice("tx") \/ rx_blame \/ notice("rx") \/ rx_clear
  BY <1>2, <1>7 DEF notice, rx_blame, rx_clear, to_peer
<1>8. CASE rx_recv_from \/ rx_send \/ write_recv \/ tap_write
  BY <1>1, <1>2, <1>8 DEF rx_recv_from, rx_send, write_recv, tap_write, to_peer, Threads
<1>9. CASE MainStep \/ ctrl_c \/ stdin_closed \/ StdinStep
           \/ \E p \in Peers : switch(p)
  BY <1>2, <1>9 DEF MainStep, main_select, cleaned_up, ctrl_c, stdin_closed,
     StdinStep, switch_reset, switch, to_peer
<1>10. CASE open_device("read") \/ open_device("write")
            \/ \E t \in {"read", "rx"} : io_error(t)
  BY <1>2, <1>10 DEF open_device, io_error, to_peer
<1>11. CASE datagram \/ port_unreachable \/ UNCHANGED vars
  BY <1>2, <1>11 DEF datagram, port_unreachable, vars, to_peer
<1>12. QED
  BY <1>3, <1>4, <1>5, <1>6, <1>7, <1>8, <1>9, <1>10, <1>11
  DEF Next, ReadStep, TxStep, RxStep, WriteStep, Environment

LEMMA RecvStep == HandInv /\ CountInv /\ RecvInv /\ [Next]_vars => RecvInv'
<1> SUFFICES ASSUME HandInv, CountInv, RecvInv, [Next]_vars PROVE RecvInv'
  OBVIOUS
<1> USE Bounds DEF RecvInv
<1>1. ASSUME NEW t \in {"read", "tx"}, NEW frames, Hold(t, frames),
             UNCHANGED <<socket, udp_chan, written>>
      PROVE  RecvInv'
  BY <1>1, Held DEF Threads
<1>2. ASSUME UNCHANGED <<held, socket, udp_chan, written>> PROVE RecvInv'
  BY <1>2
<1>3. CASE datagram
  <2>1. arrived + 1 \in Received
    BY <1>3 DEF datagram, CountInv, Received
  <2>2. Append(socket, arrived + 1) \in Seq(Received)
    BY <2>1
  <2>3. QED
    BY <1>3, <2>2 DEF datagram
<1>4. CASE rx_recv_from
  <2>1. CASE socket # <<>> /\ Hold("rx", <<Head(socket)>>) /\ socket' = Tail(socket)
    <3>1. Tail(socket) \in Seq(Received)
          /\ <<Head(socket)>> \in Seq(Received) /\ Len(<<Head(socket)>>) <= 1
      BY <2>1, Popped, One
    <3>2. held'["rx"] = <<Head(socket)>> /\ held'["write"] = held["write"]
          /\ held'["main"] = held["main"] /\ held'["stdin"] = held["stdin"]
      BY <2>1, Held DEF Threads
    <3>3. QED
      BY <1>4, <2>1, <3>1, <3>2 DEF rx_recv_from
  <2>2. CASE UNCHANGED <<held, socket>>
    BY <1>2, <1>4, <2>2 DEF rx_recv_from
  <2>3. QED
    BY <1>4, <2>1, <2>2 DEF rx_recv_from
<1>5. CASE rx_send
  <2>1. udp_chan \o held["rx"] \in Seq(Received)
        /\ Len(udp_chan \o held["rx"]) <= Len(udp_chan) + 1
    BY Pushed
  <2>2. held'["rx"] = <<>> /\ held'["write"] = held["write"]
        /\ held'["main"] = held["main"] /\ held'["stdin"] = held["stdin"]
    BY <1>5, Held DEF rx_send, Threads
  <2>3. \/ udp_chan' = udp_chan
        \/ Len(udp_chan) < Capacity /\ udp_chan' = udp_chan \o held["rx"]
    BY <1>5 DEF rx_send
  <2>4. Len(udp_chan) \in Nat /\ Len(udp_chan \o held["rx"]) \in Nat
    OBVIOUS
  <2>5. Len(udp_chan') <= Capacity /\ udp_chan' \in Seq(Received)
    <3>1. CASE udp_chan' = udp_chan
      BY <3>1
    <3>2. CASE /\ Len(udp_chan) < Capacity
               /\ udp_chan' = udp_chan \o held["rx"]
      BY <2>1, <2>4, <3>2
    <3>3. QED
      BY <2>3, <3>1, <3>2
  <2>6. QED
    BY <1>5, <2>2, <2>5, Empty DEF rx_send
<1>6. CASE write_recv
  <2>1. CASE udp_chan # <<>> /\ Hold("write", <<Head(udp_chan)>>)
             /\ udp_chan' = Tail(udp_chan)
    <3>1. Tail(udp_chan) \in Seq(Received) /\ Len(Tail(udp_chan)) <= Len(udp_chan)
          /\ <<Head(udp_chan)>> \in Seq(Received) /\ Len(<<Head(udp_chan)>>) <= 1
      BY <2>1, Popped, One
    <3>2. held'["write"] = <<Head(udp_chan)>> /\ held'["rx"] = held["rx"]
          /\ held'["main"] = held["main"] /\ held'["stdin"] = held["stdin"]
      BY <2>1, Held DEF Threads
    <3>3. Len(udp_chan') <= Capacity
      BY <2>1, <3>1
    <3>4. QED
      BY <1>6, <2>1, <3>1, <3>2, <3>3 DEF write_recv
  <2>2. CASE UNCHANGED <<held, udp_chan>>
    BY <1>2, <1>6, <2>2 DEF write_recv
  <2>3. QED
    BY <1>6, <2>1, <2>2 DEF write_recv
<1>7. CASE tap_write
  <2>1. written \o held["write"] \in Seq(Received)
    OBVIOUS
  <2>2. held'["write"] = <<>> /\ held'["rx"] = held["rx"]
        /\ held'["main"] = held["main"] /\ held'["stdin"] = held["stdin"]
    BY <1>7, Held DEF tap_write, Threads
  <2>3. written' \in Seq(Received)
    BY <1>7, <2>1 DEF tap_write
  <2>4. udp_chan' = udp_chan \/ udp_chan' = <<>>
    BY <1>7 DEF tap_write
  <2>5. udp_chan' \in Seq(Received) /\ Len(udp_chan') <= Capacity
    <3>1. CASE udp_chan' = udp_chan
      BY <3>1
    <3>2. CASE udp_chan' = <<>>
      BY <3>2, Empty
    <3>3. QED
      BY <2>4, <3>1, <3>2
  <2>6. held'["write"] \in Seq(Received) /\ Len(held'["write"]) <= 1
    BY <2>2, Empty
  <2>7. socket' = socket
    BY <1>7 DEF tap_write
  <2>8. QED
    BY <2>2, <2>3, <2>5, <2>6, <2>7
<1>8. CASE tap_read \/ tap_send \/ tx_recv \/ tx_send_to
  BY <1>1, <1>2, <1>8 DEF tap_read, tap_send, tx_recv, tx_send_to, to_tap
<1>9. CASE notice("tx") \/ rx_blame \/ notice("rx") \/ rx_clear
  BY <1>2, <1>9 DEF notice, rx_blame, rx_clear, to_tap
<1>10. CASE MainStep \/ ctrl_c \/ stdin_closed \/ StdinStep
            \/ \E p \in Peers : switch(p)
  BY <1>2, <1>10 DEF MainStep, main_select, cleaned_up, ctrl_c, stdin_closed,
     StdinStep, switch_reset, switch, to_tap
<1>11. CASE open_device("read") \/ open_device("write")
            \/ \E t \in {"read", "rx"} : io_error(t)
  BY <1>2, <1>11 DEF open_device, io_error, to_tap
<1>12. CASE port_unreachable \/ UNCHANGED vars
  BY <1>2, <1>12 DEF port_unreachable, vars, to_tap
<1>13. QED
  BY <1>3, <1>4, <1>5, <1>6, <1>7, <1>8, <1>9, <1>10, <1>11, <1>12
  DEF Next, ReadStep, TxStep, RxStep, WriteStep, Environment

(* A stray was a frame, so where no frame is read there is none.            *)
LEMMA StrayBound ==
  ASSUME SendInv, StrayInv, strays <= MaxRead, HandInv, [Next]_vars
  PROVE  strays' <= MaxRead
<1>1. CASE tx_send_to
  <2>1. held["tx"] \in Seq(Outgoing) /\ held["tx"] # <<>>
    BY <1>1 DEF tx_send_to, HandInv, SendInv
  <2>2. held["tx"][1] \in Outgoing
    BY <2>1
  <2>3. MaxRead >= 1
    BY <2>2, Bounds DEF Outgoing
  <2>4. strays' \in {0, 1}
    BY <1>1 DEF tx_send_to, StrayInv, Stray
  <2>5. QED
    BY <2>3, <2>4, Bounds
<1>2. CASE \E p \in Peers : switch(p)
  BY <1>2, Bounds DEF switch
<1>3. CASE strays' = strays
  BY <1>3
<1>4. QED
  BY <1>1, <1>2, <1>3 DEF Next, MainStep, ReadStep, TxStep, RxStep, WriteStep,
     StdinStep, Environment, main_select, cleaned_up, ctrl_c, open_device, tap_read,
     io_error, tap_send, tx_recv, notice, rx_clear, rx_recv_from, rx_blame, rx_send,
     write_recv, tap_write, switch_reset, stdin_closed, datagram, port_unreachable,
     vars

LEMMA TypesFollow ==
  ControlInv /\ CountInv /\ SendInv /\ RecvInv /\ StrayInv /\ strays <= MaxRead
    => TypeOK
<1> SUFFICES ASSUME ControlInv, CountInv, SendInv, RecvInv, StrayInv,
                    strays <= MaxRead
             PROVE  TypeOK
  OBVIOUS
<1>1. pc \in [Threads -> Labels] /\ remote_shared \in Peers
      /\ unreachable_peer \in Peers \cup {None}
      /\ blamed \in [Senders -> Peers \cup {None}] /\ told \subseteq Peers
  BY DEF ControlInv
<1>2. \A t \in Threads : Len(held[t]) <= 1
  BY DEF SendInv, RecvInv, Threads
<1>3. ToSet(held["read"]) \cup ToSet(tap_chan) \subseteq 1..MaxRead
  BY Members DEF SendInv, Taken
<1>4. ToSet(held["tx"]) \cup ToSet(sent) \subseteq Outgoing
  BY Members DEF SendInv
<1>5. ToSet(held["rx"] \o held["write"] \o udp_chan \o socket \o written)
        \subseteq 1..MaxArrived
  <2> DEFINE s == held["rx"] \o held["write"] \o udp_chan \o socket \o written
  <2>1. s \in Seq(Received)
    BY DEF RecvInv
  <2> HIDE DEF s
  <2>2. ToSet(s) \subseteq Received
    BY <2>1, Members
  <2>3. QED
    BY <2>2 DEF s, Received
<1>6. Len(tap_chan) <= Capacity /\ Len(udp_chan) <= Capacity
  BY DEF SendInv, RecvInv
<1>7. strays \in 0..MaxRead
  BY Bounds DEF StrayInv
<1>8. QED
  BY <1>1, <1>2, <1>3, <1>4, <1>5, <1>6, <1>7 DEF TypeOK, CountInv

\* Every variable of the data plane keeps its type: no channel holds more than
\* its capacity, no thread more than one frame.
THEOREM DataTypeCorrect == Spec => []TypeOK
<1>1. Init => StrayInv /\ strays <= MaxRead
  BY Bounds DEF Init, StrayInv, Stray
<1>2. SendInv /\ StrayInv /\ strays <= MaxRead /\ HandInv /\ [Next]_vars
        => (strays <= MaxRead)'
  BY StrayBound
<1>3. QED
  BY <1>1, <1>2, ControlInvInit, ControlInvStep, HandInvStep, StrayStep, FramesInit,
     CountStep, SendStep, RecvStep, TypesFollow, PTL DEF Spec

----------------------------------------------------------------------------
(* A thread has a frame in hand only while it is about to hand it on.      *)
IdleInv ==
  /\ pc["read"] # "send" => held["read"] = <<>>
  /\ pc["tx"] # "send" => held["tx"] = <<>>
  /\ pc["rx"] \notin {"clear", "send"} => held["rx"] = <<>>
  /\ pc["write"] # "send" => held["write"] = <<>>

LEMMA Went ==
  ASSUME ControlInv, NEW t \in Threads, NEW label \in Labels, Goto(t, label)
  PROVE  /\ pc'[t] = label /\ \A u \in Threads \ {t} : pc'[u] = pc[u]
BY DEF ControlInv, Goto

LEMMA IdleInvStep == ControlInv /\ HandInv /\ IdleInv /\ [Next]_vars => IdleInv'
<1> SUFFICES ASSUME ControlInv, HandInv, IdleInv, [Next]_vars PROVE IdleInv'
  OBVIOUS
<1> USE DEF Threads, Labels
<1>1. ASSUME NEW t \in Threads, NEW label \in Labels, Goto(t, label), UNCHANGED held,
             held[t] = <<>> \/ label = "send" \/ t \in {"main", "stdin"}
      PROVE  IdleInv'
  BY <1>1, Went DEF IdleInv
<1>2. ASSUME NEW t \in Threads, NEW label \in Labels, Goto(t, label), Hold(t, <<>>)
      PROVE  IdleInv'
  BY <1>2, Went, Held DEF IdleInv
<1>3. ASSUME NEW t \in {"read", "tx", "write"}, Goto(t, "send"),
             NEW frames, Hold(t, frames)
      PROVE  IdleInv'
  BY <1>3, Went, Held DEF IdleInv
<1>4. CASE MainStep \/ ctrl_c \/ stdin_closed \/ StdinStep
  BY <1>1, <1>4 DEF MainStep, main_select, cleaned_up, ctrl_c, stdin_closed, StdinStep,
     switch_reset
<1>5. CASE \E p \in Peers : switch(p)
  BY <1>1, <1>5 DEF switch
<1>6. ASSUME NEW t \in {"read", "write"}, open_device(t) PROVE IdleInv'
  <2>1. held[t] = <<>>
    BY <1>6 DEF open_device, IdleInv
  <2>2. QED
    BY <1>1, <1>6, <2>1 DEF open_device
<1>7. CASE tap_send \/ tx_send_to \/ rx_send \/ tap_write
  BY <1>2, <1>7 DEF tap_send, tx_send_to, rx_send, tap_write
<1>8. CASE tap_read
  BY <1>3, <1>8 DEF tap_read
<1>9. CASE tx_recv
  <2>1. held["tx"] = <<>>
    BY <1>9 DEF tx_recv, IdleInv
  <2>2. QED
    BY <1>1, <1>3, <1>9, <2>1 DEF tx_recv
<1>10. ASSUME NEW t \in {"tx", "rx"}, notice(t) PROVE IdleInv'
  <2>1. held[t] = <<>>
    BY <1>10 DEF notice, IdleInv
  <2>2. QED
    BY <1>1, <1>10, <2>1 DEF notice
<1>11. CASE rx_recv_from
  <2>1. held["rx"] = <<>>
    BY <1>11 DEF rx_recv_from, IdleInv
  <2>2. CASE Goto("rx", "clear") /\ Hold("rx", <<Head(socket)>>)
    BY <2>2, Went, Held DEF IdleInv
  <2>3. QED
    BY <1>1, <1>11, <2>1, <2>2 DEF rx_recv_from
<1>12. CASE rx_blame
  <2>1. held["rx"] = <<>>
    BY <1>12 DEF rx_blame, IdleInv
  <2>2. QED
    BY <1>1, <1>12, <2>1 DEF rx_blame
<1>13. CASE rx_clear
  BY <1>1, <1>13 DEF rx_clear
<1>14. CASE write_recv
  <2>1. held["write"] = <<>>
    BY <1>14 DEF write_recv, IdleInv
  <2>2. QED
    BY <1>1, <1>3, <1>14, <2>1 DEF write_recv
<1>15. ASSUME NEW t \in {"read", "rx"}, io_error(t) PROVE IdleInv'
  <2>1. held[t] = <<>>
    BY <1>15 DEF io_error, IdleInv
  <2>2. QED
    BY <1>1, <1>15, <2>1 DEF io_error
<1>16. CASE datagram \/ port_unreachable \/ UNCHANGED vars
  BY <1>16 DEF datagram, port_unreachable, vars, IdleInv
<1>17. QED
  BY <1>4, <1>5, <1>6, <1>7, <1>8, <1>9, <1>10, <1>11, <1>12, <1>13, <1>14, <1>15,
     <1>16
  DEF Next, ReadStep, TxStep, RxStep, WriteStep, Environment

----------------------------------------------------------------------------
(* Each direction is a wire.  Frames are numbered as the TAP gives them, so *)
(* what is under way to a peer or sent has numbers up to read.             *)

FreshSent == peer_wire!Known(read)

LEMMA ToPeerType ==
  SendInv => /\ Numbers(held["tx"]) \in Seq(Taken) /\ Numbers(sent) \in Seq(Taken)
             /\ ToPeer \in Seq(Nat) /\ Numbers(sent) \in Seq(Nat)
<1> SUFFICES ASSUME SendInv
             PROVE  /\ Numbers(held["tx"]) \in Seq(Taken) /\ Numbers(sent) \in Seq(Taken)
                    /\ ToPeer \in Seq(Nat) /\ Numbers(sent) \in Seq(Nat)
  OBVIOUS
<1>1. \A f \in Outgoing : f.n \in Taken
  BY DEF Outgoing, Taken
<1>2. held["tx"] \in Seq(Outgoing) /\ sent \in Seq(Outgoing)
      /\ tap_chan \in Seq(Taken) /\ held["read"] \in Seq(Taken)
  BY DEF SendInv
<1>3. Numbers(held["tx"]) \in Seq(Taken) /\ Numbers(sent) \in Seq(Taken)
  BY <1>1, <1>2, NumbersType
<1>4. ToPeer \in Seq(Taken)
  BY <1>2, <1>3, Direction, Empty DEF ToPeer
<1>5. \A s \in Seq(Taken) : s \in Seq(Nat)
  BY Bounds DEF Taken
<1>6. QED
  BY <1>3, <1>4, <1>5

LEMMA Fits ==
  ASSUME NEW a \in Nat, NEW b \in Nat, NEW c \in Nat, NEW m \in Nat,
         a <= 1, b <= m, c = 0
  PROVE  a + b + c < m + 2
OBVIOUS

LEMMA PeerWireStep ==
  ControlInv /\ HandInv /\ IdleInv /\ CountInv /\ SendInv /\ FreshSent /\ [Next]_vars
    => [peer_wire!NextWire]_(peer_wire!wire) /\ FreshSent'
<1> SUFFICES ASSUME ControlInv, HandInv, IdleInv, CountInv, SendInv, FreshSent,
                    [Next]_vars
             PROVE  [peer_wire!NextWire]_(peer_wire!wire) /\ FreshSent'
  OBVIOUS
<1> DEFINE Goal == [peer_wire!NextWire]_(peer_wire!wire) /\ FreshSent'
           hand == Numbers(held["tx"])
<1> USE DEF Threads, Labels
<1>t. /\ hand \in Seq(Taken) /\ tap_chan \in Seq(Taken) /\ held["read"] \in Seq(Taken)
      /\ held["tx"] \in Seq(Outgoing) /\ sent \in Seq(Outgoing)
      /\ Len(held["tx"]) <= 1 /\ Len(hand) = Len(held["tx"]) /\ Len(tap_chan) <= Capacity
  <2>1. /\ tap_chan \in Seq(Taken) /\ held["read"] \in Seq(Taken)
        /\ held["tx"] \in Seq(Outgoing) /\ sent \in Seq(Outgoing)
        /\ Len(held["tx"]) <= 1 /\ Len(tap_chan) <= Capacity
    BY DEF SendInv
  <2>2. \A f \in Outgoing : f.n \in Taken
    BY DEF Outgoing, Taken
  <2>3. hand \in Seq(Taken) /\ Len(hand) = Len(held["tx"])
    BY <2>1, <2>2, NumbersType
  <2>4. QED
    BY <2>1, <2>3
<1>n. ToPeer \in Seq(Nat) /\ Numbers(sent) \in Seq(Nat)
  BY ToPeerType
<1>k. read \in Nat /\ peer_wire!Known(read)
  BY DEF CountInv, FreshSent
<1> HIDE DEF hand
<1>1. ASSUME UNCHANGED <<ToPeer, sent, read, Sending>> PROVE Goal
  <2>1. UNCHANGED peer_wire!wire
    BY <1>1 DEF peer_wire!wire
  <2>2. QED
    BY <1>1, <2>1 DEF FreshSent, peer_wire!Known
<1>2. ASSUME Sending, ~Sending', UNCHANGED <<sent, read>> PROVE Goal
  <2>1. ToPeer' = <<>> /\ Sending' = FALSE
    BY <1>2 DEF ToPeer, Sending
  <2>2. Numbers(sent)' = Numbers(sent)
    BY <1>2
  <2>3. /\ peer_wire!NextWire
        /\ peer_wire!UpTo(ToPeer', read) /\ peer_wire!UpTo(Numbers(sent)', read)
    BY <1>2, <1>k, <2>1, <2>2, peer_wire!Closes
  <2>4. QED
    BY <1>2, <2>3 DEF FreshSent, peer_wire!Known
<1>3. ASSUME NEW t \in {"rx", "write", "stdin"}, NEW label \in Labels, Goto(t, label),
             UNCHANGED held \/ \E frames : Hold(t, frames), UNCHANGED to_peer
      PROVE  Goal
  <2>1. pc'["main"] = pc["main"] /\ pc'["tx"] = pc["tx"]
    BY <1>3, Went
  <2>2. held'["tx"] = held["tx"] /\ held'["read"] = held["read"]
    BY <1>3, Held
  <2>3. Sending' = Sending
    BY <2>1 DEF Sending, Up
  <2>4. ToPeer' = ToPeer /\ sent' = sent /\ read' = read
    BY <1>3, <2>2, <2>3 DEF ToPeer, to_peer
  <2>5. QED
    BY <1>1, <2>3, <2>4
<1>4. ASSUME NEW t \in {"main", "read", "tx"}, NEW label \in Labels \ {"ended"},
             Goto(t, label), UNCHANGED <<held, to_peer>>, Up, pc["tx"] # "ended" \/ t # "tx"
      PROVE  Goal
  <2>1. sent' = sent /\ read' = read /\ tap_chan' = tap_chan /\ held' = held
    BY <1>4 DEF to_peer
  <2>2. pc'["tx"] = "ended" <=> pc["tx"] = "ended"
    BY <1>4, Went
  <2>3. CASE Sending /\ ~Sending'
    BY <1>2, <2>1, <2>3
  <2>4. CASE Sending = Sending'
    BY <1>1, <2>1, <2>4 DEF ToPeer
  <2>5. QED
    BY <1>4, <2>2, <2>3, <2>4 DEF Sending
<1>5. CASE MainStep \/ ctrl_c
  BY <1>4, <1>5 DEF MainStep, main_select, cleaned_up, ctrl_c, Up
<1>6. CASE stdin_closed \/ StdinStep \/ \E p \in Peers : switch(p)
  BY <1>3, <1>6 DEF stdin_closed, StdinStep, switch_reset, switch
<1>7. CASE RxStep
  BY <1>3, <1>7 DEF RxStep, rx_recv_from, rx_blame, notice, rx_clear, rx_send
<1>8. CASE WriteStep
  BY <1>3, <1>8 DEF WriteStep, open_device, write_recv, tap_write
<1>9. CASE open_device("read") \/ io_error("read")
  <2>1. UNCHANGED <<held, to_peer>> /\ pc'["main"] = pc["main"] /\ pc'["tx"] = pc["tx"]
    BY <1>9, Went DEF open_device, io_error
  <2>2. Sending' = Sending
    BY <2>1 DEF Sending, Up
  <2>3. QED
    BY <1>1, <2>1, <2>2 DEF ToPeer, to_peer
<1>10. CASE io_error("rx")
  BY <1>3, <1>10 DEF io_error
<1>11. CASE notice("tx")
  BY <1>4, <1>11 DEF notice
<1>12. CASE tap_read
  <2>1. pc'["main"] = pc["main"] /\ pc'["tx"] = pc["tx"]
    BY <1>12, Went DEF tap_read
  <2>2. Sending' = Sending
    BY <2>1 DEF Sending, Up
  <2>3. held'["read"] = <<read + 1>> /\ held'["tx"] = held["tx"]
    BY <1>12, Held DEF tap_read
  <2>4. held["read"] = <<>> /\ read' = read + 1 /\ tap_chan' = tap_chan /\ sent' = sent
    BY <1>12 DEF tap_read, IdleInv
  <2>5. read + 1 \in Taken /\ read + 1 \in 1..MaxRead
    BY <1>12, <1>k, Bounds DEF tap_read, Taken
  <2>6. CASE Sending
    <3>1. /\ ToPeer = hand \o tap_chan \o <<>>
          /\ ToPeer' = hand \o tap_chan \o <<read + 1>>
      BY <2>2, <2>3, <2>4, <2>6 DEF ToPeer, hand
    <3>2. ToPeer' = Append(ToPeer, read + 1)
      BY <1>t, <2>5, <3>1, TakenIn
    <3>3. Len(ToPeer) < Capacity + 2
      <4>1. Len(ToPeer) = Len(hand) + Len(tap_chan) + 0
        BY <1>t, <3>1, Direction, Empty
      <4>2. Len(hand) \in Nat /\ Len(tap_chan) \in Nat
        BY <1>t, Lengths
      <4>3. QED
        BY <1>t, <4>1, <4>2, Fits, Bounds
    <3>4. Numbers(sent)' = Numbers(sent)
      BY <2>4
    <3>5. /\ peer_wire!NextWire
          /\ peer_wire!UpTo(ToPeer', read + 1) /\ peer_wire!UpTo(Numbers(sent)', read + 1)
      BY <1>n, <1>k, <2>2, <2>5, <2>6, <3>2, <3>3, <3>4, peer_wire!Enters
    <3>6. QED
      BY <2>4, <3>5 DEF FreshSent, peer_wire!Known
  <2>7. CASE ~Sending
    <3>1. ToPeer' = ToPeer
      BY <2>2, <2>7 DEF ToPeer
    <3>2. UNCHANGED peer_wire!wire
      BY <2>2, <2>4, <3>1 DEF peer_wire!wire
    <3>3. peer_wire!UpTo(ToPeer, read + 1) /\ peer_wire!UpTo(Numbers(sent), read + 1)
      BY <1>k, peer_wire!UpToMore DEF peer_wire!Known
    <3>4. QED
      BY <2>4, <3>1, <3>2, <3>3 DEF FreshSent, peer_wire!Known
  <2>8. QED
    BY <2>6, <2>7
<1>13. CASE tap_send
  <2>1. held'["read"] = <<>> /\ held'["tx"] = held["tx"]
    BY <1>13, Held DEF tap_send
  <2>2. pc'["main"] = pc["main"] /\ pc'["tx"] = pc["tx"]
    BY <1>13, Went DEF tap_send
  <2>3. Sending' = Sending
    BY <2>2 DEF Sending, Up
  <2>4. ToPeer' = ToPeer
    <3>1. CASE Sending
      <4>1. tap_chan' = tap_chan \o held["read"]
        BY <1>13, <3>1 DEF tap_send, Sending
      <4>2. ToPeer' = hand \o (tap_chan \o held["read"]) \o <<>>
        BY <2>1, <2>3, <3>1, <4>1 DEF ToPeer, hand
      <4>3. ToPeer = hand \o tap_chan \o held["read"]
        BY <3>1 DEF ToPeer, hand
      <4>4. \A a, b, c \in Seq(Taken) : a \o (b \o c) \o <<>> = a \o b \o c
        BY HandedOn
      <4>5. QED
        BY <1>t, <4>2, <4>3, <4>4
    <3>2. CASE ~Sending
      BY <2>3, <3>2 DEF ToPeer
    <3>3. QED
      BY <3>1, <3>2
  <2>5. QED
    BY <1>1, <1>13, <2>3, <2>4 DEF tap_send
<1>14. CASE tx_recv
  <2>1. held["tx"] = <<>> /\ Sending /\ sent' = sent /\ read' = read
    BY <1>14 DEF tx_recv, IdleInv, Sending
  <2>2. ToPeer = <<>> \o tap_chan \o held["read"]
    BY <2>1, NumbersOfNone DEF ToPeer
  <2>3. CASE tap_chan # <<>>
    <3> DEFINE f == [n |-> Head(tap_chan), to |-> remote_shared]
    <3>1. Hold("tx", <<f>>) /\ tap_chan' = Tail(tap_chan) /\ Goto("tx", "send")
      BY <1>14, <2>3 DEF tx_recv
    <3>2. f.n = Head(tap_chan)
      OBVIOUS
    <3> HIDE DEF f
    <3>3. held'["tx"] = <<f>> /\ held'["read"] = held["read"]
      BY <3>1, Held
    <3>4. Sending'
      BY <2>1, <3>1, Went DEF Sending, Up
    <3>5. ToPeer' = <<Head(tap_chan)>> \o Tail(tap_chan) \o held["read"]
      BY <3>1, <3>2, <3>3, <3>4, NumbersOfOne DEF ToPeer
    <3>6. ToPeer' = ToPeer
      BY <1>t, <2>2, <2>3, <3>5, TakenOut
    <3>7. QED
      BY <1>1, <2>1, <3>4, <3>6
  <2>4. CASE tap_chan = <<>>
    <3>1. Goto("tx", "ended")
      BY <1>14, <2>4 DEF tx_recv
    <3>2. ~Sending'
      BY <3>1, Went DEF Sending
    <3>3. QED
      BY <1>2, <2>1, <3>2
  <2>5. QED
    BY <2>3, <2>4
<1>15. CASE tx_send_to
  <2>1. Sending /\ read' = read
    BY <1>15 DEF tx_send_to, Sending
  <2>2. held'["tx"] = <<>> /\ held'["read"] = held["read"]
    BY <1>15, Held DEF tx_send_to
  <2>3. CASE Goto("tx", "ended") /\ UNCHANGED sent
    <3>1. ~Sending'
      BY <2>3, Went DEF Sending
    <3>2. QED
      BY <1>2, <2>1, <2>3, <3>1
  <2>4. ASSUME NEW label \in {"idle", "notice"}, Goto("tx", label), UNCHANGED tap_chan,
               sent' \in {sent, sent \o held["tx"]}
        PROVE  Goal
    <3> DEFINE f == held["tx"][1]
    <3>1. f \in Outgoing /\ held["tx"] = <<f>>
      <4>1. held["tx"] # <<>>
        BY <1>15 DEF tx_send_to, HandInv
      <4>2. QED
        BY <1>t, <4>1, Only
    <3> HIDE DEF f
    <3>2. hand = <<f.n>> /\ f.n \in Taken
      BY <3>1, NumbersOfOne DEF hand, Outgoing, Taken
    <3>3. Sending'
      BY <2>1, <2>4, Went DEF Sending, Up
    <3>4. /\ ToPeer = <<f.n>> \o tap_chan \o held["read"]
          /\ ToPeer' = <<>> \o tap_chan \o held["read"]
      BY <2>1, <2>2, <2>4, <3>2, <3>3, NumbersOfNone DEF ToPeer, hand
    <3>5. /\ ToPeer # <<>> /\ Head(ToPeer) = f.n /\ ToPeer' = Tail(ToPeer)
      <4>1. \A b, c \in Seq(Taken) :
              /\ <<f.n>> \o b \o c # <<>> /\ Head(<<f.n>> \o b \o c) = f.n
              /\ Tail(<<f.n>> \o b \o c) = <<>> \o b \o c
        BY <3>2, LetGo
      <4>2. QED
        BY <1>t, <3>4, <4>1
    <3>6. sent' = sent \/ sent' = Append(sent, f)
      BY <1>t, <2>4, <3>1
    <3>7. Numbers(sent)' = Numbers(sent) \/ Numbers(sent)' = Append(Numbers(sent), f.n)
      BY <1>t, <3>1, <3>6, NumbersOfAppend
    <3>8. /\ peer_wire!NextWire
          /\ peer_wire!UpTo(ToPeer', read) /\ peer_wire!UpTo(Numbers(sent)', read)
      BY <1>n, <1>k, <2>1, <3>3, <3>5, <3>7, peer_wire!Leaves
    <3>9. QED
      BY <2>1, <3>8 DEF FreshSent, peer_wire!Known
  <2>5. QED
    BY <1>15, <2>3, <2>4 DEF tx_send_to
<1>16. CASE datagram \/ port_unreachable \/ UNCHANGED vars
  BY <1>1, <1>16 DEF datagram, port_unreachable, vars, ToPeer, Sending, Up, to_peer
<1>17. QED
  BY <1>5, <1>6, <1>7, <1>8, <1>9, <1>10, <1>11, <1>12, <1>13, <1>14, <1>15, <1>16
  DEF Next, ReadStep, TxStep, Environment

----------------------------------------------------------------------------
(* The RX task takes datagrams from the socket in the order of their        *)
(* numbers.                                                                *)

FromSocket == arrived - Len(socket)

SocketInv == Latest(socket, arrived)

FreshRecv == tap_wire!Known(FromSocket)

LEMMA SocketType == CountInv /\ RecvInv => socket \in Seq(Nat) /\ arrived \in Nat
<1> SUFFICES ASSUME CountInv, RecvInv PROVE socket \in Seq(Nat) /\ arrived \in Nat
  OBVIOUS
<1>1. socket \in Seq(Received) /\ arrived \in 0..MaxArrived
  BY DEF CountInv, RecvInv
<1>2. \A s \in Seq(Received) : s \in Seq(Nat)
  BY Bounds DEF Received
<1>3. QED
  BY <1>1, <1>2

LEMMA FirstAtSocket ==
  ASSUME CountInv, RecvInv, SocketInv, socket # <<>>
  PROVE  /\ Head(socket) = FromSocket + 1 /\ FromSocket + 1 \in 1..MaxArrived
         /\ arrived - Len(Tail(socket)) = FromSocket + 1
<1>1. socket \in Seq(Nat) /\ arrived \in Nat
  BY SocketType
<1>2. 1..arrived \subseteq 1..MaxArrived
  BY <1>1, Bounds DEF CountInv
<1>3. QED
  BY <1>1, <1>2, LatestFirst DEF SocketInv, FromSocket

LEMMA SocketStep == CountInv /\ RecvInv /\ SocketInv /\ [Next]_vars => SocketInv'
<1> SUFFICES ASSUME CountInv, RecvInv, SocketInv, [Next]_vars PROVE SocketInv'
  OBVIOUS
<1>1. socket \in Seq(Nat) /\ arrived \in Nat
  BY SocketType
<1>2. CASE UNCHANGED <<arrived, socket>>
  BY <1>2 DEF SocketInv
<1>3. CASE datagram
  BY <1>1, <1>3, LatestMore DEF SocketInv, datagram
<1>4. CASE rx_recv_from
  BY <1>1, <1>2, <1>4, LatestFirst DEF SocketInv, rx_recv_from
<1>5. QED
  BY <1>2, <1>3, <1>4 DEF Next, MainStep, ReadStep, TxStep, RxStep, WriteStep,
     StdinStep, Environment, main_select, cleaned_up, ctrl_c, open_device, tap_read,
     io_error, tap_send, tx_recv, tx_send_to, notice, rx_clear, rx_blame, rx_send,
     write_recv, tap_write, switch, switch_reset, stdin_closed, port_unreachable,
     vars, to_tap

LEMMA ToTapType == RecvInv => ToTap \in Seq(Nat) /\ written \in Seq(Nat)
<1> SUFFICES ASSUME RecvInv PROVE ToTap \in Seq(Nat) /\ written \in Seq(Nat)
  OBVIOUS
<1>1. ToTap \in Seq(Received) /\ written \in Seq(Received)
  BY Direction, Empty DEF RecvInv, ToTap
<1>2. \A s \in Seq(Received) : s \in Seq(Nat)
  BY Bounds DEF Received
<1>3. QED
  BY <1>1, <1>2

LEMMA TapWireStep ==
  ControlInv /\ HandInv /\ IdleInv /\ CountInv /\ RecvInv /\ SocketInv /\ FreshRecv
  /\ [Next]_vars
    => [tap_wire!NextWire]_(tap_wire!wire) /\ FreshRecv'
<1> SUFFICES ASSUME ControlInv, HandInv, IdleInv, CountInv, RecvInv, SocketInv,
                    FreshRecv, [Next]_vars
             PROVE  [tap_wire!NextWire]_(tap_wire!wire) /\ FreshRecv'
  OBVIOUS
<1> DEFINE Goal == [tap_wire!NextWire]_(tap_wire!wire) /\ FreshRecv'
<1> USE DEF Threads, Labels
<1>t. /\ held["write"] \in Seq(Received) /\ udp_chan \in Seq(Received)
      /\ held["rx"] \in Seq(Received) /\ written \in Seq(Received)
      /\ Len(held["write"]) <= 1 /\ Len(udp_chan) <= Capacity
  BY DEF RecvInv
<1>n. ToTap \in Seq(Nat) /\ written \in Seq(Nat)
  BY ToTapType
<1>k. FromSocket \in Nat /\ tap_wire!Known(FromSocket)
  BY DEF SocketInv, Latest, FromSocket, FreshRecv
<1>1. ASSUME UNCHANGED <<ToTap, written, Receiving, FromSocket>> PROVE Goal
  <2>1. UNCHANGED tap_wire!wire
    BY <1>1 DEF tap_wire!wire
  <2>2. QED
    BY <1>1, <2>1 DEF FreshRecv, tap_wire!Known
<1>2. ASSUME Receiving, ~Receiving', UNCHANGED <<written, FromSocket>> PROVE Goal
  <2>1. ToTap' = <<>> /\ Receiving' = FALSE
    BY <1>2 DEF ToTap, Receiving
  <2>2. /\ tap_wire!NextWire
        /\ tap_wire!UpTo(ToTap', FromSocket) /\ tap_wire!UpTo(written', FromSocket)
    BY <1>2, <1>k, <2>1, tap_wire!Closes
  <2>3. QED
    BY <1>2, <2>2 DEF FreshRecv, tap_wire!Known
<1>3. ASSUME NEW t \in {"read", "tx", "stdin", "rx"}, NEW label \in Labels,
             Goto(t, label), UNCHANGED to_tap,
             UNCHANGED held \/ (t # "rx" /\ \E frames : Hold(t, frames))
      PROVE  Goal
  <2>1. pc'["main"] = pc["main"] /\ pc'["write"] = pc["write"]
    BY <1>3, Went
  <2>2. held'["write"] = held["write"] /\ held'["rx"] = held["rx"]
    BY <1>3, Held
  <2>3. Receiving' = Receiving
    BY <2>1 DEF Receiving, Up
  <2>4. ToTap' = ToTap /\ written' = written /\ FromSocket' = FromSocket
    BY <1>3, <2>2, <2>3 DEF ToTap, to_tap, FromSocket
  <2>5. QED
    BY <1>1, <2>3, <2>4
<1>4. ASSUME NEW t \in {"main", "write"}, NEW label \in Labels, Goto(t, label),
             UNCHANGED <<held, to_tap>>, Up, t = "write" => pc["write"] # "ended"
      PROVE  Goal
  <2>1. written' = written /\ FromSocket' = FromSocket /\ udp_chan' = udp_chan
        /\ held' = held
    BY <1>4 DEF to_tap, FromSocket
  <2>2. pc["write"] = "ended" => pc'["write"] = "ended"
    BY <1>4, Went
  <2>3. CASE Receiving /\ ~Receiving'
    BY <1>2, <2>1, <2>3
  <2>4. CASE Receiving = Receiving'
    BY <1>1, <2>1, <2>4 DEF ToTap
  <2>5. QED
    BY <1>4, <2>2, <2>3, <2>4 DEF Receiving
<1>5. CASE MainStep \/ ctrl_c
  BY <1>4, <1>5 DEF MainStep, main_select, cleaned_up, ctrl_c, Up
<1>6. CASE stdin_closed \/ StdinStep \/ \E p \in Peers : switch(p)
  BY <1>3, <1>6 DEF stdin_closed, StdinStep, switch_reset, switch
<1>7. CASE ReadStep \/ tap_read
  BY <1>3, <1>7 DEF ReadStep, open_device, tap_send, tap_read
<1>8. CASE TxStep
  BY <1>3, <1>8 DEF TxStep, tx_recv, tx_send_to, notice
<1>9. ASSUME NEW t \in {"read", "rx"}, io_error(t) PROVE Goal
  BY <1>3, <1>9 DEF io_error
<1>10. CASE rx_blame \/ notice("rx") \/ rx_clear
  BY <1>3, <1>10 DEF rx_blame, notice, rx_clear
<1>11. CASE open_device("write")
  BY <1>4, <1>11 DEF open_device
<1>12. CASE datagram
  <2>1. FromSocket' = FromSocket
    BY <1>12, SocketType, LatestMore DEF datagram, SocketInv, FromSocket
  <2>2. UNCHANGED <<ToTap, written, Receiving>>
    BY <1>12 DEF datagram, ToTap, Receiving, Up
  <2>3. QED
    BY <1>1, <2>1, <2>2
<1>13. CASE port_unreachable \/ UNCHANGED vars
  BY <1>1, <1>13 DEF port_unreachable, vars, ToTap, Receiving, Up, to_tap, FromSocket
<1>14. CASE rx_recv_from
  <2>1. pc'["main"] = pc["main"] /\ pc'["write"] = pc["write"]
    BY <1>14, Went DEF rx_recv_from
  <2>2. Receiving' = Receiving
    BY <2>1 DEF Receiving, Up
  <2>3. held["rx"] = <<>> /\ udp_chan' = udp_chan /\ written' = written
        /\ arrived' = arrived
    BY <1>14 DEF rx_recv_from, IdleInv
  <2>4. CASE UNCHANGED <<held, socket>>
    BY <1>1, <2>2, <2>3, <2>4 DEF ToTap, FromSocket
  <2>5. CASE /\ socket # <<>> /\ Hold("rx", <<Head(socket)>>)
             /\ socket' = Tail(socket)
    <3>1. held'["rx"] = <<FromSocket + 1>> /\ held'["write"] = held["write"]
      BY <2>5, Held, FirstAtSocket
    <3>2. FromSocket' = FromSocket + 1 /\ FromSocket + 1 \in 1..MaxArrived
      BY <2>3, <2>5, FirstAtSocket DEF FromSocket
    <3>3. CASE Receiving
      <4>1. ToTap = held["write"] \o udp_chan \o <<>>
            /\ ToTap' = held["write"] \o udp_chan \o <<FromSocket + 1>>
        BY <2>2, <2>3, <3>1, <3>3 DEF ToTap
      <4>2. ToTap' = Append(ToTap, FromSocket + 1)
        <5>1. FromSocket + 1 \in Received
          BY <3>2 DEF Received
        <5>2. QED
          BY <1>t, <4>1, <5>1, TakenIn
      <4>3. Len(ToTap) < Capacity + 2
        <5>1. Len(ToTap) = Len(held["write"]) + Len(udp_chan) + 0
          BY <1>t, <4>1, Direction, Empty
        <5>2. Len(held["write"]) \in Nat /\ Len(udp_chan) \in Nat
          BY <1>t, Lengths
        <5>3. QED
          BY <1>t, <5>1, <5>2, Fits, Bounds
      <4>4. /\ tap_wire!NextWire
            /\ tap_wire!UpTo(ToTap', FromSocket + 1)
            /\ tap_wire!UpTo(written', FromSocket + 1)
        BY <1>n, <1>k, <2>2, <2>3, <3>2, <3>3, <4>2, <4>3, tap_wire!Enters
      <4>5. QED
        BY <3>2, <4>4 DEF FreshRecv, tap_wire!Known
    <3>4. CASE ~Receiving
      <4>1. ToTap' = ToTap
        BY <2>2, <3>4 DEF ToTap
      <4>2. UNCHANGED tap_wire!wire
        BY <2>2, <2>3, <4>1 DEF tap_wire!wire
      <4>3. /\ tap_wire!UpTo(ToTap, FromSocket + 1)
            /\ tap_wire!UpTo(written, FromSocket + 1)
        BY <1>k, tap_wire!UpToMore DEF tap_wire!Known
      <4>4. QED
        BY <2>3, <3>2, <4>1, <4>2, <4>3 DEF FreshRecv, tap_wire!Known
    <3>5. QED
      BY <3>3, <3>4
  <2>6. QED
    BY <1>14, <2>4, <2>5 DEF rx_recv_from
<1>15. CASE rx_send
  <2>1. pc'["main"] = pc["main"] /\ pc'["write"] = pc["write"]
    BY <1>15, Went DEF rx_send
  <2>2. Receiving' = Receiving
    BY <2>1 DEF Receiving, Up
  <2>3. held'["rx"] = <<>> /\ held'["write"] = held["write"]
    BY <1>15, Held DEF rx_send
  <2>4. ToTap' = ToTap
    <3>1. CASE Receiving
      <4>1. udp_chan' = udp_chan \o held["rx"]
        BY <1>15, <3>1 DEF rx_send, Receiving
      <4>2. /\ ToTap' = held["write"] \o (udp_chan \o held["rx"]) \o <<>>
            /\ ToTap = held["write"] \o udp_chan \o held["rx"]
        BY <2>2, <2>3, <3>1, <4>1 DEF ToTap
      <4>3. \A a, b, c \in Seq(Received) : a \o (b \o c) \o <<>> = a \o b \o c
        BY HandedOn
      <4>4. QED
        BY <1>t, <4>2, <4>3
    <3>2. CASE ~Receiving
      BY <2>2, <3>2 DEF ToTap
    <3>3. QED
      BY <3>1, <3>2
  <2>5. QED
    BY <1>1, <1>15, <2>2, <2>4 DEF rx_send, FromSocket
<1>16. CASE write_recv
  <2>1. held["write"] = <<>> /\ Receiving /\ written' = written
        /\ FromSocket' = FromSocket
    BY <1>16 DEF write_recv, IdleInv, Receiving, FromSocket
  <2>2. CASE /\ udp_chan # <<>> /\ Hold("write", <<Head(udp_chan)>>)
             /\ udp_chan' = Tail(udp_chan) /\ Goto("write", "send")
    <3>1. held'["write"] = <<Head(udp_chan)>> /\ held'["rx"] = held["rx"]
      BY <2>2, Held
    <3>2. Receiving'
      BY <2>1, <2>2, Went DEF Receiving, Up
    <3>3. ToTap = <<>> \o udp_chan \o held["rx"]
          /\ ToTap' = <<Head(udp_chan)>> \o Tail(udp_chan) \o held["rx"]
      BY <2>1, <2>2, <3>1, <3>2 DEF ToTap
    <3>4. ToTap' = ToTap
      BY <1>t, <2>2, <3>3, TakenOut
    <3>5. QED
      BY <1>1, <2>1, <3>2, <3>4
  <2>3. CASE Goto("write", "ended")
    <3>1. ~Receiving'
      BY <2>3, Went DEF Receiving
    <3>2. QED
      BY <1>2, <2>1, <3>1
  <2>4. QED
    BY <1>16, <2>2, <2>3 DEF write_recv
<1>17. CASE tap_write
  <2>1. Receiving /\ FromSocket' = FromSocket
    BY <1>17 DEF tap_write, Receiving, FromSocket
  <2>2. held'["write"] = <<>> /\ held'["rx"] = held["rx"]
    BY <1>17, Held DEF tap_write
  <2>3. CASE Goto("write", "ended") /\ UNCHANGED written
    <3>1. ~Receiving'
      BY <2>3, Went DEF Receiving
    <3>2. QED
      BY <1>2, <2>1, <2>3, <3>1
  <2>4. CASE /\ Goto("write", "idle") /\ UNCHANGED udp_chan
             /\ written' = written \o held["write"]
    <3>1. Receiving'
      BY <2>1, <2>4, Went DEF Receiving, Up
    <3>2. ToTap = held["write"] \o udp_chan \o held["rx"]
          /\ ToTap' = <<>> \o udp_chan \o held["rx"]
      BY <2>1, <2>2, <2>4, <3>1 DEF ToTap
    <3>3. CASE held["write"] = <<>>
      <4>1. written' = written
        BY <1>t, <2>4, <3>3
      <4>2. QED
        BY <1>1, <2>1, <3>1, <3>2, <3>3, <4>1
    <3>4. CASE held["write"] # <<>>
      <4> DEFINE f == held["write"][1]
      <4>1. f \in Received /\ held["write"] = <<f>>
        BY <1>t, <3>4, Only
      <4> HIDE DEF f
      <4>2. ToTap # <<>> /\ Head(ToTap) = f /\ ToTap' = Tail(ToTap)
        <5>1. \A b, c \in Seq(Received) :
                /\ <<f>> \o b \o c # <<>> /\ Head(<<f>> \o b \o c) = f
                /\ Tail(<<f>> \o b \o c) = <<>> \o b \o c
          BY <4>1, LetGo
        <5>2. ToTap = <<f>> \o udp_chan \o held["rx"]
          BY <3>2, <4>1
        <5>3. /\ ToTap # <<>> /\ Head(ToTap) = f
              /\ Tail(ToTap) = <<>> \o udp_chan \o held["rx"]
          BY <1>t, <5>1, <5>2
        <5>4. QED
          BY <3>2, <5>3
      <4>3. written' = Append(written, f)
        BY <1>t, <2>4, <4>1
      <4>4. /\ tap_wire!NextWire
            /\ tap_wire!UpTo(ToTap', FromSocket) /\ tap_wire!UpTo(written', FromSocket)
        BY <1>n, <1>k, <2>1, <3>1, <4>2, <4>3, tap_wire!Leaves
      <4>5. QED
        BY <2>1, <4>4 DEF FreshRecv, tap_wire!Known
    <3>5. QED
      BY <3>3, <3>4
  <2>5. QED
    BY <1>17, <2>3, <2>4 DEF tap_write
<1>18. QED
  BY <1>5, <1>6, <1>7, <1>8, <1>9, <1>10, <1>11, <1>12, <1>13, <1>14, <1>15, <1>16,
     <1>17
  DEF Next, RxStep, WriteStep, Environment

WireInv ==
  /\ ControlInv /\ HandInv /\ IdleInv /\ CountInv /\ SendInv /\ RecvInv
  /\ FreshSent /\ SocketInv /\ FreshRecv

LEMMA WireInvInit == Init => WireInv /\ peer_wire!InitWire /\ tap_wire!InitWire
<1> SUFFICES ASSUME Init PROVE WireInv /\ peer_wire!InitWire /\ tap_wire!InitWire
  OBVIOUS
<1>1. ControlInv /\ HandInv /\ CountInv /\ SendInv /\ RecvInv
  BY ControlInvInit, FramesInit
<1>2. /\ sent = <<>> /\ written = <<>> /\ socket = <<>> /\ arrived = 0 /\ read = 0
      /\ tap_chan = <<>> /\ udp_chan = <<>>
  BY DEF Init
<1>3. /\ held["tx"] = <<>> /\ held["read"] = <<>> /\ held["rx"] = <<>>
      /\ held["write"] = <<>>
  BY DEF Init, Threads
<1>4. Sending = TRUE /\ Receiving = TRUE
  BY DEF Init, Sending, Receiving, Up, Threads
<1>5. ToPeer = <<>> /\ ToTap = <<>>
  BY <1>2, <1>3, <1>4, NumbersOfNone DEF ToPeer, ToTap
<1>6. IdleInv
  BY <1>3 DEF IdleInv
<1>7. SocketInv
  BY <1>2, LatestNone DEF SocketInv
<1>8. FreshSent /\ FreshRecv
  BY <1>2, <1>5, NumbersOfNone, peer_wire!UpToNone, tap_wire!UpToNone
  DEF FreshSent, peer_wire!Known, FreshRecv, tap_wire!Known
<1>9. peer_wire!InitWire /\ tap_wire!InitWire
  BY <1>2, <1>4, <1>5, NumbersOfNone DEF peer_wire!InitWire, tap_wire!InitWire
<1>10. QED
  BY <1>1, <1>6, <1>7, <1>8, <1>9 DEF WireInv

LEMMA WireInvStep ==
  WireInv /\ [Next]_vars
    => /\ WireInv'
       /\ [peer_wire!NextWire]_(peer_wire!wire) /\ [tap_wire!NextWire]_(tap_wire!wire)
<1> SUFFICES ASSUME WireInv, [Next]_vars
             PROVE  /\ WireInv' /\ [peer_wire!NextWire]_(peer_wire!wire)
                    /\ [tap_wire!NextWire]_(tap_wire!wire)
  OBVIOUS
<1>1. /\ ControlInv /\ HandInv /\ IdleInv /\ CountInv /\ SendInv /\ RecvInv
      /\ FreshSent /\ SocketInv /\ FreshRecv
  BY DEF WireInv
<1>2. ControlInv' /\ HandInv' /\ IdleInv' /\ CountInv'
  BY <1>1, ControlInvStep, HandInvStep, IdleInvStep, CountStep
<1>3. SendInv' /\ RecvInv' /\ SocketInv'
  BY <1>1, SendStep, RecvStep, SocketStep
<1>4. FreshSent' /\ [peer_wire!NextWire]_(peer_wire!wire)
  BY <1>1, PeerWireStep
<1>5. FreshRecv' /\ [tap_wire!NextWire]_(tap_wire!wire)
  BY <1>1, TapWireStep
<1>6. QED
  BY <1>2, <1>3, <1>4, <1>5 DEF WireInv

\* What the TAP gives leaves for the peers as a wire delivers it, whatever the
\* threads, the switches and the network do in between: in order, once, and
\* lost only at the socket or with the client.
THEOREM ClientSendsInOrder == Spec => ToPeerIsWire
BY WireInvInit, WireInvStep, PTL DEF Spec, ToPeerIsWire, peer_wire!WireSpec

\* Datagrams received are written to the TAP as a wire that loses nothing while
\* it is up delivers them: each one, in order and once.
THEOREM ClientWritesInOrder == Spec => ToTapIsWire
BY WireInvInit, WireInvStep, PTL DEF Spec, ToTapIsWire, tap_wire!WireSpec

\* So what the client has sent is in the order in which the TAP gave it, what it
\* has written in the order of its arrival, and nothing is there twice.
THEOREM ClientKeepsOrder == Spec => [](peer_wire!InOrder /\ tap_wire!InOrder)
<1>1. 1..MaxRead \subseteq Nat /\ 1..MaxArrived \subseteq Nat
  BY Bounds
<1>2. peer_wire!WireSpec => []peer_wire!InOrder
  BY <1>1, peer_wire!WireKeepsOrder
<1>3. tap_wire!WireSpec => []tap_wire!InOrder
  BY <1>1, tap_wire!WireKeepsOrder
<1>4. QED
  BY <1>2, <1>3, ClientSendsInOrder, ClientWritesInOrder, PTL
  DEF ToPeerIsWire, ToTapIsWire
=============================================================================
