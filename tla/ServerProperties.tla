-------------------------- MODULE ServerProperties --------------------------
(***************************************************************************)
(* What server mode promises.                                              *)
(***************************************************************************)
EXTENDS ServerTunnel, FrameSequences

Serving == pc["main"] \notin {"returned", "failed"}
Sending == Serving /\ pc["tx"] # "ended"

\* The frames under way to the peer and to the NIC.
ToPeer == IF Sending THEN held["tx"] \o cap_chan \o held["capture"] ELSE <<>>
ToNic  == IF Serving THEN held["inject"] \o inj_chan \o held["rx"] ELSE <<>>

\* Each direction holds at most what its channel and the two threads at its
\* ends can: past that it blocks, and what blocks is not lost.
peer_wire == INSTANCE FrameWire WITH
  Frames    <- 1..MaxCaptured,
  Room      <- Capacity + 2,
  Lossy     <- TRUE,
  transit   <- Numbers(ToPeer),
  delivered <- Numbers(sent),
  open      <- Sending

nic_wire == INSTANCE FrameWire WITH
  Frames    <- 1..MaxArrived,
  Room      <- Capacity + 2,
  Lossy     <- TRUE,
  transit   <- ToNic,
  delivered <- injected,
  open      <- Serving

\* Captured frames reach the peer's address in the order of their capture,
\* none twice; one is lost only at the socket, or with the server (the
\* capture thread, the channel of 256 and task A in server.rs).
ToPeerIsWire == peer_wire!WireSpec

\* The same of datagrams received and frames injected: a slow NIC holds task
\* B up and costs no frame but one that sendpacket refuses (task B, the
\* channel and the inject thread in server.rs).
ToNicIsWire == nic_wire!WireSpec

\* No frame stays in the server for ever, whichever way it goes: each wait of a
\* thread (for room, for a frame) ends while the server is up.
NothingSticks == peer_wire!Moves /\ nic_wire!Moves

\* No thread the server cannot do without ends and leaves the others running:
\* capture dying by a pcap error is noticed through the channel it drops, a
\* task that ends through select! (server.rs).
EndsTogether ==
  ("ended" \in {pc["capture"], pc["tx"], pc["rx"]}) ~> ~Serving

\* Both tasks set and clear the flag with swap, so the log alternates: one
\* "not open yet" for each outage, one "now reachable" for its end, whatever
\* the order in which the tasks see the resets and the frames (server.rs).
WarnedOncePerOutage ==
  warned = IF peer_unreachable THEN cleared + 1 ELSE cleared

\* server.rs says of the filter: it is supplied when overlay and underlay share
\* the same NIC, omitting it would cause a loop.  So no packet of the tunnel
\* itself is sent through the tunnel, where both interface indices are found
\* (the filter main.rs builds and server.rs installs).
OwnNeverForwarded ==
  \A f \in ToSet(held["capture"] \o cap_chan \o held["tx"] \o sent) :
    f.kind \notin OwnKinds
=============================================================================
