----------------------------- MODULE FrameWire -----------------------------
(***************************************************************************)
(* What each direction of either end promises (src/server.rs,              *)
(* src/client.rs): a wire that holds a bounded number of frames, delivers  *)
(* them in the order they entered, never twice, may lose the one at its    *)
(* end if it is lossy, and loses those in it when it closes.               *)
(***************************************************************************)
EXTENDS FrameSequences

CONSTANTS
  Frames, \* the frames that may enter, numbers in the order in which they do
  Room,   \* how many frames the wire holds at once
  Lossy   \* may it lose a frame while it is up?

VARIABLES
  transit,   \* the frames in the wire, the next to leave first
  delivered, \* the frames that have left it, in order
  open       \* is the wire still up?

wire == <<transit, delivered, open>>

InitWire == transit = <<>> /\ delivered = <<>> /\ open = TRUE

Enter(f) ==
  /\ open /\ Len(transit) < Room
  /\ \A g \in ToSet(transit) \cup ToSet(delivered) : g < f
  /\ transit' = Append(transit, f)
  /\ UNCHANGED <<delivered, open>>

Leave ==
  /\ open /\ transit # <<>>
  /\ \/ delivered' = Append(delivered, Head(transit))
     \/ Lossy /\ UNCHANGED delivered
  /\ transit' = Tail(transit)
  /\ UNCHANGED open

Close ==
  /\ open
  /\ open' = FALSE /\ transit' = <<>>
  /\ UNCHANGED delivered

NextWire == (\E f \in Frames : Enter(f)) \/ Leave \/ Close

WireSpec == InitWire /\ [][NextWire]_wire

\* No frame stays in the wire for ever.
Moves == \A f \in Frames : f \in ToSet(transit) ~> f \notin ToSet(transit)

----------------------------------------------------------------------------
(* Steps of a wire in which frames so far go up to m.                      *)

Known(m) == UpTo(transit, m) /\ UpTo(delivered, m)

LEMMA Enters ==
  ASSUME transit \in Seq(Nat), delivered \in Seq(Nat), NEW m \in Nat, Known(m),
         m + 1 \in Frames, open, UNCHANGED <<open, delivered>>, Len(transit) < Room,
         transit' = Append(transit, m + 1)
  PROVE  NextWire /\ UpTo(transit', m + 1) /\ UpTo(delivered', m + 1)
<1>1. UpTo(transit, m + 1) /\ UpTo(delivered, m + 1)
  BY UpToMore DEF Known
<1>2. \A g \in ToSet(transit) \cup ToSet(delivered) : g < m + 1
  BY DEF Known, UpTo
<1>3. QED
  BY <1>1, <1>2, UpToAppend DEF NextWire, Enter

LEMMA Leaves ==
  ASSUME transit \in Seq(Nat), delivered \in Seq(Nat), NEW m \in Nat, Known(m),
         open, UNCHANGED open, transit # <<>>, transit' = Tail(transit),
         \/ delivered' = Append(delivered, Head(transit))
         \/ Lossy /\ UNCHANGED delivered
  PROVE  NextWire /\ UpTo(transit', m) /\ UpTo(delivered', m)
<1>1. Head(transit) \in 1..m /\ UpTo(transit', m)
  BY UpToTail DEF Known
<1>2. UpTo(delivered', m)
  BY <1>1, UpToAppend DEF Known
<1>3. Leave
  BY DEF Leave
<1>4. QED
  BY <1>1, <1>2, <1>3 DEF NextWire

LEMMA Closes ==
  ASSUME NEW m \in Nat, Known(m), open, open' = FALSE, transit' = <<>>, UNCHANGED delivered
  PROVE  NextWire /\ UpTo(transit', m) /\ UpTo(delivered', m)
BY UpToNone DEF NextWire, Close, Known

----------------------------------------------------------------------------
\* What has left the wire and what is in it are in the order in which they
\* entered, and none of them is there twice.
InOrder ==
  /\ delivered \in Seq(Nat) /\ transit \in Seq(Nat)
  /\ Increasing(delivered \o transit)

LEMMA InOrderInit == InitWire => InOrder
BY DEF InitWire, InOrder, Increasing

\* A wire that is emptied keeps the order of what it has delivered.
LEMMA InOrderEmptied ==
  ASSUME InOrder, transit' = <<>>, UNCHANGED delivered PROVE InOrder'
<1>1. Increasing(delivered)
  BY IncreasingStart DEF InOrder
<1>2. delivered \in Seq(Nat) /\ delivered \o <<>> = delivered
  BY DEF InOrder
<1>3. QED
  BY <1>1, <1>2, Empty DEF InOrder

LEMMA InOrderStep == Frames \subseteq Nat /\ InOrder /\ [NextWire]_wire => InOrder'
<1> SUFFICES ASSUME Frames \subseteq Nat, InOrder, [NextWire]_wire PROVE InOrder'
  OBVIOUS
<1>1. delivered \in Seq(Nat) /\ transit \in Seq(Nat)
      /\ Increasing(delivered \o transit)
  BY DEF InOrder
<1>2. ASSUME NEW f \in Frames, Enter(f) PROVE InOrder'
  <2> DEFINE all == delivered \o transit
  <2>1. f \in Nat
    OBVIOUS
  <2>2. all \in Seq(Nat) /\ \A g \in ToSet(all) : g < f
    BY <1>1, <1>2 DEF Enter, ToSet
  <2>3. transit' = Append(transit, f) /\ delivered' = delivered
    BY <1>2 DEF Enter
  <2>4. delivered' \o transit' = Append(all, f)
    BY <1>1, <2>1, <2>3, AddedLast
  <2> HIDE DEF all
  <2>5. Increasing(delivered' \o transit')
    BY <1>1, <2>1, <2>2, <2>4, IncreasingAppend DEF all
  <2>6. transit' \in Seq(Nat)
    BY <1>1, <2>1, <2>3, Appended
  <2>7. QED
    BY <1>1, <2>3, <2>5, <2>6 DEF InOrder
<1>3. CASE Leave
  <2>1. transit # <<>> /\ transit' = Tail(transit)
    BY <1>3 DEF Leave
  <2>2. Head(transit) \in Nat /\ transit' \in Seq(Nat)
    BY <1>1, <2>1, Popped
  <2>3. CASE delivered' = Append(delivered, Head(transit))
    <3>1. delivered' \o transit' = delivered \o transit
      BY <1>1, <2>1, <2>3, MovedOn
    <3>2. delivered' \in Seq(Nat)
      BY <1>1, <2>2, <2>3, Appended
    <3>3. QED
      BY <1>1, <2>2, <3>1, <3>2 DEF InOrder
  <2>4. CASE delivered' = delivered
    BY <1>1, <2>1, <2>2, <2>4, IncreasingWithout DEF InOrder
  <2>5. QED
    BY <1>3, <2>3, <2>4 DEF Leave
<1>4. CASE Close
  BY <1>4, InOrderEmptied DEF Close
<1>5. CASE UNCHANGED wire
  BY <1>1, <1>5 DEF wire, InOrder
<1>6. QED
  BY <1>2, <1>3, <1>4, <1>5 DEF NextWire

\* What a wire delivers it delivers in order and once (each direction of
\* client.rs and server.rs implements one).
THEOREM WireKeepsOrder ==
  ASSUME Frames \subseteq Nat PROVE WireSpec => []InOrder
<1>1. InOrder /\ [NextWire]_wire => InOrder'
  BY InOrderStep
<1>2. QED
  BY <1>1, InOrderInit, PTL DEF WireSpec
=============================================================================
