------------------------------ MODULE StartUp ------------------------------
(***************************************************************************)
(* From the command line to a mode (src/main.rs, src/cli.rs, src/iface.rs, *)
(* resolve_local_ip and prefix_to_mask): what --list and --probe print,    *)
(* which device --if captures on and with which filter, and what --tap     *)
(* asks of the client.                                                     *)
(*                                                                         *)
(* A name is [text, as_listed]: two names with the same text differ at     *)
(* most in case, and as_listed says that this one has the case the system  *)
(* gives it.  What a table shows is a sequence of display widths.          *)
(*                                                                         *)
(* Left out: the contents of addresses, the order in which arguments are   *)
(* given, the wording of messages.                                         *)
(***************************************************************************)
EXTENDS Integers, Sequences, FiniteSets, SequencesExt, TLC

CONSTANTS
  Guids,     \* of the devices npcap may list
  Loopback,  \* an npcap device whose name has no GUID
  Aliases,   \* texts of the names Windows gives interfaces
  Numeral,   \* the texts that parse as u32 -> their values
  IfIndices, \* interface indices Windows hands out
  IfTexts,   \* texts a user may give as --if
  NameW,     \* columns of the tables: 30 and 45 or 38 in the code
  DescW,
  MaxChars,  \* bound: characters of a description
  Bits,      \* of an address, 32 in the code
  MaxMoves   \* bound: how often the route to the peer changes

ASSUME StartUpAssumption ==
  /\ IsFiniteSet(Guids) /\ Loopback \notin Guids
  /\ (Guids \cup {Loopback}) \cap DOMAIN Numeral = {} \* \Device\NPF_... is no number
  /\ IfIndices \subseteq Nat \ {0}
  /\ NameW \in Nat \ {0} /\ DescW \in Nat \ {0}
  /\ Bits \in Nat \ {0} /\ MaxMoves \in Nat

None    == "(none)"       \* an option that was not given
Descr   == "(description)"
Devices == Guids \cup {Loopback}

VARIABLES
  npcap,    \* Device::list(): the devices, in npcap's order
  adapters, \* GUID -> index and alias, for the devices Windows has IPv4 data of
  desc,     \* the description of every device, as display widths
  egress,   \* index of the interface the route to the peer leaves by
  moves,    \* how often it changed
  args,     \* the command line
  pc,       \* the next step of run()
  ifaces,   \* list_interfaces()
  shown,    \* the rows printed
  local_if, \* interface whose address is bound; 0 for the one the user gave
  pcap_device, \* the device to capture on
  underlay, \* index of the egress as asked for the filter, 0 if unanswered
  filter,   \* is a capture filter built?
  params    \* what the client is started with

system == <<npcap, adapters, desc, args>>
route  == <<egress, moves>>
mode   == <<pcap_device, underlay, filter, params>>
vars   == <<system, route, pc, ifaces, shown, local_if, mode>>

----------------------------------------------------------------------------
\* The command line.  Of an address only its form matters.
Addresses == {None, "bad", "ipv6", "any", "given"}
Taps == [name : {"auto", "tap-ot"}, ip : {"none", "bad", "given"},
         prefix : 0..(Bits + 1)]
\* --list or --probe, or neither; and the options that go with each other.
Tables(list, probe, local, remote) ==
  [list |-> list, probe |-> probe, iface |-> {}, tap |-> {},
   local |-> local, remote |-> remote]
Options(iface, tap, local, remote) ==
  [list |-> FALSE, probe |-> FALSE, iface |-> iface, tap |-> tap,
   local |-> local, remote |-> remote]
Names == [text : IfTexts, as_listed : BOOLEAN]
GivenTap == CHOOSE tap \in Taps : tap.ip = "none"

\* Each option varies where it decides something.
TableLines  == {Tables(l, p, None, None) : l \in BOOLEAN, p \in BOOLEAN}
ServerLines == {Options({n}, {}, l, "given") : n \in Names, l \in {"any", "given"}}
PeerLines   == {Options({}, {GivenTap}, l, r) : l \in Addresses, r \in Addresses}
TapLines    == {Options({}, {t}, "any", "given") : t \in Taps}
WrongLines  == {Options({n}, {GivenTap}, "any", "given") : n \in Names}
                 \cup {Tables(TRUE, FALSE, "any", "given")}

CommandLines == TableLines \cup ServerLines \cup PeerLines \cup TapLines \cup WrongLines

\* conflicts_with_all: --list and --probe go with no other option.
Conflict(a) ==
  /\ a.list \/ a.probe
  /\ \/ a.list /\ a.probe
     \/ a.iface # {} \/ a.tap # {} \/ a.local # None \/ a.remote # None

----------------------------------------------------------------------------
\* src/iface.rs.

Row == [pcap_name : Devices, if_index : {0} \cup IfIndices,
        friendly_name : Aliases \cup {"", Descr}]

\* The GUID between the braces, none for the loopback device.
extract_guid(device) == {device} \cap Guids

\* GetAdaptersInfo may fail, also because adapters have come between the call
\* for the size and the call for the data: the map is empty then.  An alias
\* that cannot be had, of any of them, is replaced by the description.
build_windows_adapter_map ==
  {<<>>} \cup
  {[g \in DOMAIN adapters |->
      [adapters[g] EXCEPT !.alias = IF g \in unnamed THEN Descr ELSE @]] :
   unnamed \in SUBSET DOMAIN adapters}

\* Mutant: a device Windows has no data of is left out.
list_known_interfaces(win_map) ==
  LET listed == SelectSeq(npcap, LAMBDA d : d \in DOMAIN win_map)
  IN  [i \in DOMAIN listed |->
         [pcap_name |-> listed[i], if_index |-> win_map[listed[i]].if_index,
          friendly_name |-> win_map[listed[i]].alias]]

list_interfaces(win_map) ==
  [i \in DOMAIN npcap |->
     LET guid == extract_guid(npcap[i]) \cap DOMAIN win_map
     IN  [pcap_name |-> npcap[i],
          if_index  |-> IF guid = {} THEN 0 ELSE win_map[npcap[i]].if_index,
          friendly_name |-> IF guid = {} THEN "" ELSE win_map[npcap[i]].alias]]

First(Test(_)) == SelectInSeq(ifaces, Test)

\* Mutant: names before indices.
resolve_iface_name_first(input) ==
  LET same(row) == row.pcap_name = input.text
      indexed(row) == row.if_index = Numeral[input.text]
      named(row) == row.friendly_name = input.text
  IN  IF input.text \in Devices
      THEN IF First(same) # 0 THEN {input} ELSE {}
      ELSE IF First(named) # 0
      THEN {[text |-> ifaces[First(named)].pcap_name, as_listed |-> TRUE]}
      ELSE IF input.text \in DOMAIN Numeral /\ First(indexed) # 0
      THEN {[text |-> ifaces[First(indexed)].pcap_name, as_listed |-> TRUE]}
      ELSE {}

\* A device name is taken as the user wrote it, case and all.  A number is an
\* index, never a name.
resolve_iface(input) ==
  LET same(row) == row.pcap_name = input.text
      wanted(row) == IF input.text \in DOMAIN Numeral
                     THEN row.if_index = Numeral[input.text]
                     ELSE row.friendly_name = input.text
  IN  IF input.text \in Devices
      THEN IF First(same) # 0 THEN {input} ELSE {}
      ELSE IF First(wanted) = 0 THEN {}
      ELSE {[text |-> ifaces[First(wanted)].pcap_name, as_listed |-> TRUE]}

\* Mutant: the exact name.
find_exact_name(name) ==
  LET same(row) == [text |-> row.pcap_name, as_listed |-> TRUE] = name
  IN  IF First(same) = 0 THEN 0 ELSE ifaces[First(same)].if_index

\* The index of the device with this name, in any case; 0 if there is none.
find_iface_by_pcap_name(name) ==
  LET same(row) == row.pcap_name = name.text
  IN  IF First(same) = 0 THEN 0 ELSE ifaces[First(same)].if_index

\* The columns the first n characters take, for every n; and all of them.
Widths(s) == LET w[n \in 0..Len(s)] == IF n = 0 THEN 0 ELSE w[n - 1] + s[n] IN w
Width(s)  == Widths(s)[Len(s)]

\* Mutant: no column kept for the ellipsis.
truncate_full_budget(s, w) ==
  IF Width(s) <= w THEN s
  ELSE LET fits == {n \in 0..Len(s) : Widths(s)[n] <= w}
       IN  Append(SubSeq(s, 1, CHOOSE n \in fits : \A k \in fits : k <= n), 1)

truncate_str(s, w) ==
  IF Width(s) <= w THEN s
  ELSE LET fits == {n \in 0..Len(s) : Widths(s)[n] <= w - 1}
       IN  Append(SubSeq(s, 1, CHOOSE n \in fits : \A k \in fits : k <= n), 1)

\* Padded with blanks, or cut.
fit_str(s, w) ==
  IF Width(s) <= w THEN s \o [i \in 1..(w - Width(s)) |-> 1]
  ELSE truncate_str(s, w)

\* The name column falls back to the description; --probe adds what it found.
Line(row, inject) ==
  [row  |-> row, inject |-> inject,
   name |-> fit_str(IF row.friendly_name \in {"", Descr} THEN desc ELSE <<1, 1>>,
                    NameW),
   desc |-> truncate_str(desc, DescW)]

\* Does the driver take a test frame?  "bridge" also if the device cannot be
\* opened.
probe_inject == {"inject", "bridge"}

\* src/routing.rs: the top bits of the address.  A shift by Bits is undefined
\* (it panics, or shifts by 0), hence the case of its own.
Pow2[n \in Nat] == IF n = 0 THEN 1 ELSE 2 * Pow2[n - 1]
shift_left(x, n) == (x * Pow2[n % Bits]) % Pow2[Bits]

\* Mutant: no case for 0.
prefix_to_mask_shift_only(prefix) == shift_left(Pow2[Bits] - 1, Bits - prefix)

prefix_to_mask(prefix) ==
  IF prefix = 0 THEN 0 ELSE shift_left(Pow2[Bits] - 1, Bits - prefix)

----------------------------------------------------------------------------
TypeOK ==
  /\ \A i \in DOMAIN npcap : npcap[i] \in Devices
  /\ DOMAIN adapters \subseteq Guids
  /\ egress \in {0} \cup IfIndices /\ moves \in 0..MaxMoves
  /\ args \in CommandLines
  /\ \A i \in DOMAIN ifaces : ifaces[i] \in Row
  /\ local_if \in {0} \cup IfIndices /\ underlay \in {0} \cup IfIndices
  /\ Len(shown) \in {0, Len(npcap)}
  /\ Cardinality(pcap_device) <= 1 /\ Cardinality(params) <= 1
  /\ filter \in BOOLEAN

Init ==
  /\ args \in CommandLines
  /\ \E listed \in SUBSET Devices : npcap \in SetToSeqs(listed)
  /\ \E known \in SUBSET Guids :
       /\ adapters \in [known -> [if_index : IfIndices, alias : Aliases]]
       /\ \A g, h \in known : g # h => /\ adapters[g].if_index # adapters[h].if_index
                                       /\ adapters[g].alias # adapters[h].alias
  /\ desc \in IF args.list \/ args.probe THEN BoundedSeq({1, 2}, MaxChars)
              ELSE {<<1, 1>>}
  /\ egress \in IfIndices /\ moves = 0
  /\ pc = "parse"
  /\ ifaces = <<>> /\ shown = <<>> /\ local_if = 0
  /\ pcap_device = {} /\ underlay = 0 /\ filter = FALSE /\ params = {}

Goto(label) == pc' = label

\* An error: main prints it and exits with status 1.
Fail == Goto("failed")

parse ==
  /\ pc = "parse"
  /\ Goto(IF Conflict(args) THEN "usage" ELSE "pcap_init")
  /\ UNCHANGED <<system, route, ifaces, shown, local_if, mode>>

\* pcap_init; its failure is only logged.
init_utf8_encoding ==
  /\ pc = "pcap_init"
  /\ Goto(IF args.list \/ args.probe THEN "table" ELSE "addresses")
  /\ UNCHANGED <<system, route, ifaces, shown, local_if, mode>>

\* One row for each device, in npcap's order.
print_interface_list ==
  /\ pc = "table" /\ args.list
  /\ \/ /\ \E win_map \in build_windows_adapter_map :
             ifaces' = list_interfaces(win_map)
        /\ shown' = [i \in DOMAIN ifaces' |-> Line(ifaces'[i], None)]
        /\ Goto("done")
     \/ Fail /\ UNCHANGED <<ifaces, shown>>
  /\ UNCHANGED <<system, route, local_if, mode>>

\* The same rows, each with the result of its probe.
print_probe_list ==
  /\ pc = "table" /\ args.probe
  /\ \/ /\ \E win_map \in build_windows_adapter_map :
             ifaces' = list_interfaces(win_map)
        /\ \E inject \in [DOMAIN ifaces' -> probe_inject] :
             shown' = [i \in DOMAIN ifaces' |-> Line(ifaces'[i], inject[i])]
        /\ Goto("done")
     \/ Fail /\ UNCHANGED <<ifaces, shown>>
  /\ UNCHANGED <<system, route, local_if, mode>>

\* Both addresses are required and parsed, and must be IPv4; then 0.0.0.0 is
\* replaced by the address of the interface the route to the peer leaves by.
resolve_local_ip ==
  /\ pc = "addresses"
  /\ \/ /\ args.remote \in {"any", "given"} /\ args.local = "given"
        /\ Goto("dispatch") /\ UNCHANGED local_if
     \/ /\ args.remote \in {"any", "given"} /\ args.local = "any"
        /\ local_if' = egress /\ Goto("dispatch")
     \/ /\ args.local = "any" \/ ~{args.remote, args.local} \subseteq {"any", "given"}
        /\ Fail /\ UNCHANGED local_if
  /\ UNCHANGED <<system, route, ifaces, shown, mode>>

dispatch ==
  /\ pc = "dispatch"
  /\ \/ args.iface # {} /\ args.tap = {} /\ Goto("enumerate")
     \/ args.iface = {} /\ args.tap # {} /\ Goto("tap")
     \/ (args.iface = {} <=> args.tap = {}) /\ Fail
  /\ UNCHANGED <<system, route, ifaces, shown, local_if, mode>>

\* Server mode.
enumerate ==
  /\ pc = "enumerate"
  /\ \/ /\ \E win_map \in build_windows_adapter_map :
             ifaces' = list_interfaces(win_map)
        /\ Goto("resolve")
     \/ Fail /\ UNCHANGED ifaces
  /\ UNCHANGED <<system, route, shown, local_if, mode>>

resolve ==
  /\ pc = "resolve"
  /\ \A input \in args.iface :
       /\ pcap_device' = resolve_iface(input)
       /\ IF resolve_iface(input) = {} THEN Fail ELSE Goto("ask_route")
  /\ UNCHANGED <<system, route, ifaces, shown, local_if, underlay, filter, params>>

\* The route to the peer is asked for a second time.
ask_route ==
  /\ pc = "ask_route" /\ Goto("filter")
  /\ underlay' \in {0, egress}
  /\ UNCHANGED <<system, route, ifaces, shown, local_if, pcap_device, filter, params>>

\* A filter only if both indices are known and the same.
build_filter ==
  /\ pc = "filter" /\ Goto("serving")
  /\ filter' = \E name \in pcap_device :
                 /\ underlay # 0
                 /\ find_iface_by_pcap_name(name) = underlay
  /\ UNCHANGED <<system, route, ifaces, shown, local_if, pcap_device, underlay, params>>

\* An address comes with a prefix, which is at most Bits.
Accepted(tap) == tap.ip = "none" \/ (tap.ip = "given" /\ tap.prefix <= Bits)

\* Client mode.
parse_tap_arg ==
  /\ pc = "tap"
  /\ \A tap \in args.tap :
       IF Accepted(tap)
       THEN /\ params' = {[tap_name |-> tap.name,
                           mask |-> IF tap.ip = "none" THEN -1
                                    ELSE prefix_to_mask(tap.prefix)]}
            /\ Goto("client")
       ELSE Fail /\ UNCHANGED params
  /\ UNCHANGED <<system, route, ifaces, shown, local_if, pcap_device, underlay, filter>>

\* The host: another interface becomes the egress to the peer.
route_moves ==
  /\ moves < MaxMoves /\ moves' = moves + 1
  /\ egress' \in IfIndices \ {egress}
  /\ UNCHANGED <<system, pc, ifaces, shown, local_if, mode>>

Next ==
  \/ parse \/ init_utf8_encoding \/ print_interface_list \/ print_probe_list
  \/ resolve_local_ip \/ dispatch
  \/ enumerate \/ resolve \/ ask_route \/ build_filter \/ parse_tap_arg
  \/ route_moves

Spec == Init /\ [][Next]_vars

----------------------------------------------------------------------------
\* The index a row shows is one --if accepts, and selects that row's device,
\* whatever the interfaces are called; the exception is 0, the index of every
\* device Windows has no data of (print_interface_list and resolve_iface in
\* src/iface.rs).
RowSelectsDevice ==
  pc = "done" =>
    \A i \in DOMAIN shown, text \in DOMAIN Numeral :
      Numeral[text] = shown[i].row.if_index /\ Numeral[text] # 0
        => resolve_iface([text |-> text, as_listed |-> TRUE])
             = {[text |-> npcap[i], as_listed |-> TRUE]}

\* A character of s lies across the boundary after column w.
Across(s, w) == \E n \in 1..Len(s) : Widths(s)[n - 1] < w /\ w < Widths(s)[n]

\* How far the columns of the tables keep their widths: no cell is wider than
\* its column, and a name fills its own but in one case, in which it is one
\* column short: it is cut, and a wide character lies across the cut (fit_str
\* and truncate_str in src/iface.rs).
ColumnsFit ==
  \A i \in DOMAIN shown :
    /\ Width(shown[i].name) =
         IF /\ shown[i].row.friendly_name \in {"", Descr}
            /\ Width(desc) > NameW /\ Across(desc, NameW - 1)
         THEN NameW - 1 ELSE NameW
    /\ Width(shown[i].desc) <= DescW

\* However --if named the device, and in whatever case, the server filters its
\* own packets out if and only if it captures on the interface they leave by;
\* unless Windows or the routing table would not say which those are, or the
\* route has changed since it was asked for the second time (main.rs,
\* find_iface_by_pcap_name).
FilterOnSharedNic ==
  pc = "serving" /\ underlay = egress
    => \A name \in pcap_device :
         (\E i \in DOMAIN ifaces :
            ifaces[i].pcap_name = name.text /\ ifaces[i].if_index # 0)
         => (filter <=> adapters[name.text].if_index = egress)

\* The mask netsh is given has as many leading ones as --tap's prefix says, for
\* 0 and for Bits as well (parse_tap_arg in main.rs, prefix_to_mask in
\* routing.rs).
MaskMatchesPrefix ==
  \A p \in params, tap \in args.tap :
    tap.ip = "given" => p.mask = Pow2[Bits] - Pow2[Bits - tap.prefix]

----------------------------------------------------------------------------
\* Stated by the repository, and not so.

\* src/iface.rs:172: what fit_str returns has exactly the width of the column,
\* the remainder after a cut padded with spaces; so the columns of the tables
\* line up, with characters that are two columns wide as well (iface.rs:65).
ColumnsLineUp == \A i \in DOMAIN shown : Width(shown[i].name) = NameW
============================================================================
