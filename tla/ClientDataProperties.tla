------------------------ MODULE ClientDataProperties ------------------------
(***************************************************************************)
(* What the data plane of client mode promises.                            *)
(***************************************************************************)
EXTENDS ClientData, FrameSequences

Sending   == Up /\ pc["tx"] # "ended"
Receiving == Up /\ pc["write"] # "ended"

\* The frames under way to a peer and to the TAP.
ToPeer == IF Sending THEN Numbers(held["tx"]) \o tap_chan \o held["read"] ELSE <<>>
ToTap  == IF Receiving THEN held["write"] \o udp_chan \o held["rx"] ELSE <<>>

peer_wire == INSTANCE FrameWire WITH
  Frames    <- 1..MaxRead,
  Room      <- Capacity + 2,
  Lossy     <- TRUE,
  transit   <- ToPeer,
  delivered <- Numbers(sent),
  open      <- Sending

tap_wire == INSTANCE FrameWire WITH
  Frames    <- 1..MaxArrived,
  Room      <- Capacity + 2,
  Lossy     <- FALSE,
  transit   <- ToTap,
  delivered <- written,
  open      <- Receiving

\* What the TAP gives leaves for a peer in the order it was read, none twice,
\* across any number of switches; a full channel holds the TAP up, and one
\* frame is lost for each WSAECONNRESET that send_to reports (the read thread,
\* the channel of 256 and the UDP-TX task in client.rs).
ToPeerIsWire == peer_wire!WireSpec

\* Every datagram received is written to the TAP, in order and once, as long as
\* the write thread lives: a slow TAP stops the receiving instead of costing a
\* frame (the UDP-RX task, the channel of 256 and the write thread in
\* client.rs).
ToTapIsWire == tap_wire!WireSpec

\* No frame stays in the client for ever, whichever way it goes: each wait of a
\* thread (for room, for a frame, for a lock) ends while the client is up.
NothingSticks == peer_wire!Moves /\ tap_wire!Moves

\* The address is looked up after the frame has left the channel: whatever
\* waits in the channel when the switch completes goes to the new peer, and at
\* most the one frame already in hand goes to one that has been left (the read
\* lock of the UDP-TX task, the write lock of the stdin task in client.rs).
AtMostOneStray == strays <= 1

\* client.rs: the mark is reset so that the first WSAECONNRESET from the new
\* peer triggers a fresh warning.  So between switches the current peer is
\* marked only if a warning has named it since the last one began.
FreshAfterSwitch ==
  pc["stdin"] # "reset" /\ unreachable_peer = remote_shared
    => remote_shared \in told

\* The end of the read thread, which select! does not watch, reaches it through
\* the channel and the UDP-TX task: the client never runs on unable to send
\* (client.rs).
EndsTogether ==
  ("ended" \in {pc["read"], pc["tx"], pc["rx"], pc["stdin"]}) ~> ~Up

\* The end of the write thread is noticed with the next datagram, no sooner:
\* the client runs on unable to receive only while nothing comes (the send of
\* the UDP-RX task in client.rs).
DeadWriterNoticed ==
  pc["write"] = "ended" /\ (socket # <<>> \/ held["rx"] # <<>>) ~> ~Up
=============================================================================
