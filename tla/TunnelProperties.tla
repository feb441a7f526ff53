-------------------------- MODULE TunnelProperties --------------------------
(***************************************************************************)
(* What the tunnel does from the captured NIC to the TAP and back.         *)
(***************************************************************************)
EXTENDS Tunnel, FrameSequences

\* The frames behind the client's arrivals.
Behind(arrivals) == {reached_client[a] : a \in ToSet(arrivals)}

OnTap == [i \in DOMAIN written |-> reached_client[written[i]]]
OnNic == [i \in DOMAIN injected |-> reached_server[injected[i]]]

\* If the network keeps the order, so does the tunnel: the TAP gets frames in
\* the order of their capture, the NIC in the order in which the TAP gave them,
\* none twice, also across a stop and a new start of the server.
InOrderOnce == orderly => Increasing(OnTap) /\ Increasing(OnNic)

\* The frames that have not reached the other end yet, and the arrivals that
\* each end has not let go.
ToClient == held["capture"] \o cap_chan \o held["tx"] \o to_client
ToServer == c_held["tx"] \o to_server
AtClient == c_socket \o c_held["rx"] \o udp_chan \o c_held["write"]
AtServer == socket \o held["rx"] \o inj_chan \o held["inject"]

\* No frame vanishes: each one captured or read is on its way, with the other
\* end, let go by it, or lost where a loss is known: to the network, the NIC, a
\* reset or a stop of the server.  Not even full channels cost one.
NoneVanishes ==
  /\ 1..captured \subseteq NumbersIn(ToClient) \cup Behind(AtClient)
                           \cup ToSet(OnTap) \cup lost.server
  /\ 1..read \subseteq ToSet(c_held["read"] \o tap_chan) \cup NumbersIn(ToServer)
                       \cup FromClient(AtServer) \cup ToSet(OnNic) \cup lost.client

\* Each frame taken at one end comes out at the other, but for those the
\* network or the NIC took, the server held when it stopped, found its port
\* closed, or were given up for a reset: full channels on both ends only hold
\* frames up, and a server that comes back needs nothing from the client.
\* (The number of frames is bounded, so "again and again all are through" says
\* that each one is in the end.)
GetsThrough ==
  []<>(/\ 1..captured \subseteq ToSet(OnTap) \cup lost.server
       /\ 1..read \subseteq ToSet(OnNic) \cup lost.client)
=============================================================================
