----------------------------- MODULE ClientData -----------------------------
(***************************************************************************)
(* The data plane of client mode (src/client.rs): frames read from the TAP *)
(* go to the current peer as UDP payloads, payloads received are written   *)
(* to the TAP, and a `switch` line changes the peer meanwhile.             *)
(*                                                                         *)
(* read and write are OS threads, each with a TAP handle of its own; tx,   *)
(* rx and stdin are tasks; main waits for tx, rx, stdin or Ctrl+C, and     *)
(* never for the two OS threads.  A bounded channel joins read to tx and   *)
(* another rx to write.  pc[t] says what thread t does next, held[t] is    *)
(* the frame it has in hand, a sequence of at most one.                    *)
(*                                                                         *)
(* Left out: the bytes of a frame, the host route of a switch and the      *)
(* cleanup of the host (ClientLifecycle), lines on stdin that switch       *)
(* nothing, and the order in which the threads are spawned (one not        *)
(* spawned yet has just not moved).                                        *)
(***************************************************************************)
EXTENDS Naturals, Sequences, SequencesExt

CONSTANTS
  Capacity,    \* of each channel, 256 in the code
  Peers,       \* the addresses (IP and port) of the peers
  None,        \* no address
  MaxRead,     \* bound: frames the TAP hands to the read thread
  MaxArrived,  \* bound: datagrams that reach the socket
  MaxSwitches, \* bound: switches
  MaxResets    \* bound: ICMP Port Unreachable errors that come back

ASSUME DataAssumption ==
  /\ Capacity \in Nat \ {0}
  /\ Peers # {} /\ None \notin Peers
  /\ {MaxRead, MaxArrived, MaxSwitches, MaxResets} \subseteq Nat

Threads == {"main", "read", "tx", "rx", "write", "stdin"}
Senders == {"tx", "rx"}   \* the tasks a WSAECONNRESET is reported to
Labels  == {"select", "cleanup", "returned", \* main
            "open",   \* opens its TAP handle
            "idle",   \* waits for a frame, or for a line on stdin
            "send",   \* has a frame to hand on
            "blame",  \* rx: has a WSAECONNRESET and no address to it
            "notice", \* has a WSAECONNRESET and the address to note
            "clear",  \* rx has a datagram, and the mark to clear
            "reset",  \* stdin has stored the address, the mark is to go
            "ended"}

Outgoing == [n : 1..MaxRead, to : Peers]

VARIABLES
  pc, held,
  tap_chan, udp_chan, \* read -> tx, rx -> write
  read, sent,         \* frames the TAP gave; frames sent, and where to
  arrived, socket,    \* datagrams that reached the host; those not received
  written,            \* frames written to the TAP
  remote_shared,      \* the current peer
  unreachable_peer,   \* the peer marked unreachable, or None
  blamed,             \* task -> the address it is about to note
  reset_pending,      \* an ICMP Port Unreachable came back, no call reported it
  resets, switches,   \* how many so far
  told,               \* peers a warning named since the last switch began
  strays              \* frames sent to a peer left by a completed switch

to_peer == <<tap_chan, read, sent>>
to_tap  == <<udp_chan, arrived, socket, written>>
mark    == <<unreachable_peer, told>>
icmp    == <<reset_pending, resets>>
peer    == <<remote_shared, switches>>
vars    == <<pc, held, to_peer, to_tap, mark, blamed, icmp, peer, strays>>

TypeOK ==
  /\ pc \in [Threads -> Labels]
  /\ \A t \in Threads : Len(held[t]) <= 1
  /\ ToSet(held["read"]) \cup ToSet(tap_chan) \subseteq 1..MaxRead
  /\ ToSet(held["tx"]) \cup ToSet(sent) \subseteq Outgoing
  /\ ToSet(held["rx"] \o held["write"] \o udp_chan \o socket \o written)
       \subseteq 1..MaxArrived
  /\ Len(tap_chan) <= Capacity /\ Len(udp_chan) <= Capacity
  /\ read \in 0..MaxRead /\ arrived \in 0..MaxArrived
  /\ remote_shared \in Peers /\ unreachable_peer \in Peers \cup {None}
  /\ blamed \in [Senders -> Peers \cup {None}]
  /\ reset_pending \in BOOLEAN /\ resets \in 0..MaxResets
  /\ switches \in 0..MaxSwitches /\ strays \in 0..MaxRead
  /\ told \subseteq Peers

Init ==
  /\ pc = [t \in Threads |-> CASE t = "main"              -> "select"
                               [] t \in {"read", "write"} -> "open"
                               [] OTHER                   -> "idle"]
  /\ held = [t \in Threads |-> <<>>]
  /\ tap_chan = <<>> /\ udp_chan = <<>>
  /\ read = 0 /\ sent = <<>>
  /\ arrived = 0 /\ socket = <<>> /\ written = <<>>
  /\ remote_shared \in Peers /\ switches = 0 /\ strays = 0
  /\ unreachable_peer = None /\ told = {}
  /\ blamed = [t \in Senders |-> None]
  /\ reset_pending = FALSE /\ resets = 0

\* The threads run on while main cleans the host up, and not beyond that.
Up == pc["main"] # "returned"

Goto(t, label) == pc' = [pc EXCEPT ![t] = label]
Hold(t, frames) == held' = [held EXCEPT ![t] = frames]

----------------------------------------------------------------------------
\* The main task, after start-up.

\* Mutant: the end of the TX task wakes nobody.
main_select_rx_only ==
  /\ pc["main"] = "select" /\ "ended" \in {pc["rx"], pc["stdin"]}
  /\ Goto("main", "cleanup")
  /\ UNCHANGED <<held, to_peer, to_tap, mark, blamed, icmp, peer, strays>>

main_select ==
  /\ pc["main"] = "select" /\ "ended" \in {pc["tx"], pc["rx"], pc["stdin"]}
  /\ Goto("main", "cleanup")
  /\ UNCHANGED <<held, to_peer, to_tap, mark, blamed, icmp, peer, strays>>

\* The Ctrl+C task cleans up and exits in main's place.
ctrl_c ==
  /\ pc["main"] = "select" /\ Goto("main", "cleanup")
  /\ UNCHANGED <<held, to_peer, to_tap, mark, blamed, icmp, peer, strays>>

cleaned_up ==
  /\ pc["main"] = "cleanup" /\ Goto("main", "returned")
  /\ UNCHANGED <<held, to_peer, to_tap, mark, blamed, icmp, peer, strays>>

----------------------------------------------------------------------------
\* Thread tap-read: TAP -> channel, and task UDP-TX: channel -> socket.

\* Each OS thread opens the TAP for itself; one that cannot is gone, and its
\* end of the channel with it.
open_device(t) ==
  /\ Up /\ pc[t] = "open"
  /\ \E label \in {"idle", "ended"} : Goto(t, label)
  /\ UNCHANGED <<held, to_peer, to_tap, mark, blamed, icmp, peer, strays>>

tap_read ==
  /\ Up /\ pc["read"] = "idle" /\ read < MaxRead
  /\ Hold("read", <<read + 1>>) /\ read' = read + 1
  /\ Goto("read", "send")
  /\ UNCHANGED <<tap_chan, sent, to_tap, mark, blamed, icmp, peer, strays>>

\* Any error of the TAP read ends the thread, any error of recv_from but
\* WSAECONNRESET (a datagram longer than the buffer among them) the RX task.
io_error(t) ==
  /\ Up /\ pc[t] = "idle" /\ Goto(t, "ended")
  /\ UNCHANGED <<held, to_peer, to_tap, mark, blamed, icmp, peer, strays>>

\* Mutant: try_send instead of blocking_send.
tap_try_send ==
  /\ Up /\ pc["read"] = "send"
  /\ tap_chan' = IF Len(tap_chan) < Capacity THEN tap_chan \o held["read"]
                 ELSE tap_chan
  /\ Hold("read", <<>>) /\ Goto("read", "idle")
  /\ UNCHANGED <<read, sent, to_tap, mark, blamed, icmp, peer, strays>>

\* Mutant: a channel without a bound.
tap_send_unbounded ==
  /\ Up /\ pc["read"] = "send"
  /\ \/ /\ pc["tx"] = "ended"
        /\ Goto("read", "ended") /\ UNCHANGED tap_chan
     \/ /\ pc["tx"] # "ended"
        /\ tap_chan' = tap_chan \o held["read"]
        /\ Goto("read", "idle")
  /\ Hold("read", <<>>)
  /\ UNCHANGED <<read, sent, to_tap, mark, blamed, icmp, peer, strays>>

\* Mutant: blocking_send waits for a slot more than it needs.
tap_send_two_slots ==
  /\ Up /\ pc["read"] = "send"
  /\ \/ /\ pc["tx"] = "ended"
        /\ Goto("read", "ended") /\ UNCHANGED tap_chan
     \/ /\ pc["tx"] # "ended" /\ Len(tap_chan) + 1 < Capacity
        /\ tap_chan' = tap_chan \o held["read"]
        /\ Goto("read", "idle")
  /\ Hold("read", <<>>)
  /\ UNCHANGED <<read, sent, to_tap, mark, blamed, icmp, peer, strays>>

\* blocking_send waits for room, and fails when tx has dropped the receiver.
tap_send ==
  /\ Up /\ pc["read"] = "send"
  /\ \/ /\ pc["tx"] = "ended"
        /\ Goto("read", "ended") /\ UNCHANGED tap_chan
     \/ /\ pc["tx"] # "ended" /\ Len(tap_chan) < Capacity
        /\ tap_chan' = tap_chan \o held["read"]
        /\ Goto("read", "idle")
  /\ Hold("read", <<>>)
  /\ UNCHANGED <<read, sent, to_tap, mark, blamed, icmp, peer, strays>>

\* Mutant: the destination is the one the task started with.
tx_recv_fixed_dest ==
  /\ Up /\ pc["tx"] = "idle"
  /\ \/ /\ tap_chan # <<>> /\ tap_chan' = Tail(tap_chan)
        /\ \E p \in Peers :
             /\ p = IF sent = <<>> THEN remote_shared ELSE sent[1].to
             /\ Hold("tx", <<[n |-> Head(tap_chan), to |-> p]>>)
        /\ Goto("tx", "send")
     \/ /\ tap_chan = <<>> /\ pc["read"] = "ended"
        /\ Goto("tx", "ended") /\ UNCHANGED <<held, tap_chan>>
  /\ UNCHANGED <<read, sent, to_tap, mark, blamed, icmp, peer, strays>>

\* recv, then the read lock on the peer's address: the frame's destination is
\* chosen once it has left the channel.  recv gives what is left there before
\* it reports that the read thread has dropped the sender.
tx_recv ==
  /\ Up /\ pc["tx"] = "idle"
  /\ \/ /\ tap_chan # <<>> /\ tap_chan' = Tail(tap_chan)
        /\ Hold("tx", <<[n |-> Head(tap_chan), to |-> remote_shared]>>)
        /\ Goto("tx", "send")
     \/ /\ tap_chan = <<>> /\ pc["read"] = "ended"
        /\ Goto("tx", "ended") /\ UNCHANGED <<held, tap_chan>>
  /\ UNCHANGED <<read, sent, to_tap, mark, blamed, icmp, peer, strays>>

\* send_to succeeds, reports an earlier WSAECONNRESET, in which case this
\* frame is given up and its own destination blamed, or fails, which ends the
\* task and drops the channel.
tx_send_to ==
  /\ Up /\ pc["tx"] = "send" /\ Hold("tx", <<>>)
  /\ \/ /\ sent' = sent \o held["tx"]
        /\ strays' = IF held["tx"][1].to # remote_shared /\ pc["stdin"] # "reset"
                     THEN strays + 1 ELSE strays
        /\ Goto("tx", "idle")
        /\ UNCHANGED <<tap_chan, reset_pending, blamed>>
     \/ /\ reset_pending /\ reset_pending' = FALSE
        /\ blamed' = [blamed EXCEPT !["tx"] = held["tx"][1].to]
        /\ Goto("tx", "notice")
        /\ UNCHANGED <<tap_chan, sent, strays>>
     \/ /\ Goto("tx", "ended") /\ tap_chan' = <<>>
        /\ UNCHANGED <<sent, strays, reset_pending, blamed>>
  /\ UNCHANGED <<read, to_tap, mark, resets, peer>>

----------------------------------------------------------------------------
\* The mark, under its lock.

\* A peer already marked is not warned about again.
notice(t) ==
  /\ Up /\ pc[t] = "notice" /\ Goto(t, "idle")
  /\ told' = IF unreachable_peer = blamed[t] THEN told
             ELSE told \cup {blamed[t]}
  /\ unreachable_peer' = blamed[t]
  /\ blamed' = [blamed EXCEPT ![t] = None]
  /\ UNCHANGED <<held, to_peer, to_tap, icmp, peer, strays>>

rx_clear ==
  /\ Up /\ pc["rx"] = "clear" /\ Goto("rx", "send")
  /\ unreachable_peer' = None
  /\ UNCHANGED <<held, to_peer, to_tap, told, blamed, icmp, peer, strays>>

----------------------------------------------------------------------------
\* Task UDP-RX: socket -> channel, and thread tap-write: channel -> TAP.

\* Mutant: peek_from instead of recv_from.
rx_peek_from ==
  /\ Up /\ pc["rx"] = "idle" /\ socket # <<>>
  /\ Hold("rx", <<Head(socket)>>) /\ Goto("rx", "clear")
  /\ UNCHANGED <<to_peer, to_tap, mark, blamed, icmp, peer, strays>>

\* recv_from takes any datagram, whoever sent it.
rx_recv_from ==
  /\ Up /\ pc["rx"] = "idle"
  /\ \/ /\ socket # <<>> /\ socket' = Tail(socket)
        /\ Hold("rx", <<Head(socket)>>)
        /\ Goto("rx", "clear") /\ UNCHANGED reset_pending
     \/ /\ reset_pending /\ reset_pending' = FALSE
        /\ Goto("rx", "blame") /\ UNCHANGED <<held, socket>>
  /\ UNCHANGED <<to_peer, udp_chan, arrived, written, mark, blamed, resets, peer,
                 strays>>

\* The error names no peer: whoever is the peer by now is blamed.
rx_blame ==
  /\ Up /\ pc["rx"] = "blame" /\ Goto("rx", "notice")
  /\ blamed' = [blamed EXCEPT !["rx"] = remote_shared]
  /\ UNCHANGED <<held, to_peer, to_tap, mark, icmp, peer, strays>>

\* Mutant: try_send instead of send.
rx_try_send ==
  /\ Up /\ pc["rx"] = "send"
  /\ udp_chan' = IF Len(udp_chan) < Capacity THEN udp_chan \o held["rx"]
                 ELSE udp_chan
  /\ Hold("rx", <<>>) /\ Goto("rx", "idle")
  /\ UNCHANGED <<to_peer, arrived, socket, written, mark, blamed, icmp, peer,
                 strays>>

\* Mutant: a send that fails is ignored.
rx_send_ignores ==
  /\ Up /\ pc["rx"] = "send"
  /\ \/ pc["write"] = "ended" /\ UNCHANGED udp_chan
     \/ /\ pc["write"] # "ended" /\ Len(udp_chan) < Capacity
        /\ udp_chan' = udp_chan \o held["rx"]
  /\ Hold("rx", <<>>) /\ Goto("rx", "idle")
  /\ UNCHANGED <<to_peer, arrived, socket, written, mark, blamed, icmp, peer,
                 strays>>

\* send waits for room, and fails when the write thread has dropped the
\* receiver.
rx_send ==
  /\ Up /\ pc["rx"] = "send"
  /\ \/ /\ pc["write"] = "ended"
        /\ Goto("rx", "ended") /\ UNCHANGED udp_chan
     \/ /\ pc["write"] # "ended" /\ Len(udp_chan) < Capacity
        /\ udp_chan' = udp_chan \o held["rx"]
        /\ Goto("rx", "idle")
  /\ Hold("rx", <<>>)
  /\ UNCHANGED <<to_peer, arrived, socket, written, mark, blamed, icmp, peer,
                 strays>>

write_recv ==
  /\ Up /\ pc["write"] = "idle"
  /\ \/ /\ udp_chan # <<>> /\ udp_chan' = Tail(udp_chan)
        /\ Hold("write", <<Head(udp_chan)>>)
        /\ Goto("write", "send")
     \/ /\ udp_chan = <<>> /\ pc["rx"] = "ended"
        /\ Goto("write", "ended") /\ UNCHANGED <<held, udp_chan>>
  /\ UNCHANGED <<to_peer, arrived, socket, written, mark, blamed, icmp, peer,
                 strays>>

\* An error of write_all ends the thread, and drops the channel.
tap_write ==
  /\ Up /\ pc["write"] = "send" /\ Hold("write", <<>>)
  /\ \/ /\ written' = written \o held["write"]
        /\ Goto("write", "idle") /\ UNCHANGED udp_chan
     \/ /\ Goto("write", "ended") /\ udp_chan' = <<>>
        /\ UNCHANGED written
  /\ UNCHANGED <<to_peer, arrived, socket, mark, blamed, icmp, peer, strays>>

----------------------------------------------------------------------------
\* The stdin task.

\* A switch whose sync_tap_route succeeded stores the new address.
switch(p) ==
  /\ Up /\ pc["stdin"] = "idle" /\ switches < MaxSwitches
  /\ remote_shared' = p /\ switches' = switches + 1
  /\ told' = {} /\ strays' = 0
  /\ Goto("stdin", "reset")
  /\ UNCHANGED <<held, to_peer, to_tap, unreachable_peer, blamed, icmp>>

\* Mutant: the mark is left as it is.
switch_reset_missing ==
  /\ Up /\ pc["stdin"] = "reset" /\ Goto("stdin", "idle")
  /\ UNCHANGED <<held, to_peer, to_tap, mark, blamed, icmp, peer, strays>>

\* Then, as a step of its own, it takes the mark away.
switch_reset ==
  /\ Up /\ pc["stdin"] = "reset" /\ Goto("stdin", "idle")
  /\ unreachable_peer' = None
  /\ UNCHANGED <<held, to_peer, to_tap, told, blamed, icmp, peer, strays>>

stdin_closed ==
  /\ Up /\ pc["stdin"] = "idle" /\ Goto("stdin", "ended")
  /\ UNCHANGED <<held, to_peer, to_tap, mark, blamed, icmp, peer, strays>>

----------------------------------------------------------------------------
\* The network.

datagram ==
  /\ Up /\ arrived < MaxArrived
  /\ socket' = Append(socket, arrived + 1) /\ arrived' = arrived + 1
  /\ UNCHANGED <<pc, held, to_peer, udp_chan, written, mark, blamed, icmp, peer,
                 strays>>

\* A peer's port is closed: at most one reply for each frame sent.
port_unreachable ==
  /\ Up /\ ~reset_pending /\ resets < MaxResets /\ resets < Len(sent)
  /\ reset_pending' = TRUE /\ resets' = resets + 1
  /\ UNCHANGED <<pc, held, to_peer, to_tap, mark, blamed, peer, strays>>

----------------------------------------------------------------------------
MainStep  == main_select \/ cleaned_up
ReadStep  == open_device("read") \/ tap_send
TxStep    == tx_recv \/ tx_send_to \/ notice("tx")
RxStep    == rx_recv_from \/ rx_blame \/ notice("rx") \/ rx_clear \/ rx_send
WriteStep == open_device("write") \/ write_recv \/ tap_write
StdinStep == switch_reset
Environment == \/ tap_read \/ datagram \/ port_unreachable
               \/ ctrl_c \/ stdin_closed \/ \E p \in Peers : switch(p)
               \/ \E t \in {"read", "rx"} : io_error(t)

Next == \/ MainStep \/ ReadStep \/ TxStep \/ RxStep \/ WriteStep \/ StdinStep
        \/ Environment

Spec == Init /\ [][Next]_vars
FairSpec ==
  /\ Spec
  /\ WF_vars(MainStep) /\ WF_vars(ReadStep) /\ WF_vars(TxStep)
  /\ WF_vars(RxStep) /\ WF_vars(WriteStep) /\ WF_vars(StdinStep)
=============================================================================
