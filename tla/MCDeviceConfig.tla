--------------------------- MODULE MCDeviceConfig ---------------------------
EXTENDS DeviceConfig, TLC

CONSTANTS fa, fb, fc,  \* names of fields
          ta, tb,      \* tables
          ma, mb       \* field maps

Words == 1
Bits  == 2
MCArea == {Words, Bits}
\* Blocks of 3 words and 2 bits for 125 and 2000.
MCMaxCount == [x \in MCArea |-> IF x = Words THEN 3 ELSE 2]
\* What setClusterIndex is called with, and one value below the first cluster.
MCCluster == {0, 2}

Names == <<fa, fb, fc>>
Field(name, area, address, span) ==
  [name |-> name, area |-> area, address |-> address, span |-> span, stride |-> 3,
   pt |-> 0, ct |-> 0]

NoLists == [pt |-> {}, ct |-> {}, both |-> {}]
Plain ==
  [template |-> <<Field(fa, Words, 0, 1)>>, own |-> None, tplLists |-> NoLists,
   ownLists |-> NoLists, valid |-> TRUE, table |-> ta,
   tables |-> <<[mysql |-> ta, prefix |-> None, map |-> ma]>>, maps |-> (ma :> TRUE)]

\* Points of every geometry: up to three of them, words within two blocks.
Geometry == {<<Words, x, s>> : x \in 0 .. 4, s \in {1, 2}} \cup {<<Bits, x, 1>> : x \in 0 .. 1}
FieldLists ==
  UNION {{[i \in 1 .. k |-> Field(Names[i], g[i][1], g[i][2], g[i][3])] : g \in [1 .. k -> Geometry]}
           : k \in 1 .. 3}
PlanConfigs == {[Plain EXCEPT !.template = f] : f \in FieldLists}

\* Fields of template and device with names of every kind, with exponents of their own or
\* none, and lists of some of them.
Named(names) == [i \in 1 .. Len(names) |-> Field(names[i], Words, i, 1)]
Raised(names) == [i \in 1 .. Len(names) |-> [Named(names)[i] EXCEPT !.pt = 3 - i, !.ct = -1]]
Lists == {[pt |-> {}, ct |-> {fa}, both |-> {}], [pt |-> {fb}, ct |-> {}, both |-> {}],
          [pt |-> {fa}, ct |-> {}, both |-> {fb}], NoLists}
LoadConfigs ==
  {[Plain EXCEPT !.template = f, !.own = o, !.tplLists = x, !.ownLists = y, !.valid = v] :
     f \in {Named(<<fa, fb>>), Raised(<<fa, fb>>), Named(<<fb, fa, fb>>), Malformed, None},
     o \in {Named(<<fb, fa>>), Raised(<<fb, fa>>), Named(<<fa>>), <<>>, Malformed, None},
     x \in Lists, y \in Lists, v \in BOOLEAN}

\* Sinks with up to two entries in tables and up to two maps.
Entry == [mysql : {ta, tb, None}, prefix : {ta, None}, map : {ma, mb, None}]
SinkConfigs ==
  {[Plain EXCEPT !.tables = e, !.maps = x] :
     e \in UNION {[1 .. k -> Entry] : k \in 0 .. 2},
     x \in {None} \cup UNION {[d -> BOOLEAN] : d \in SUBSET {ma, mb}}}

MCConfigs == PlanConfigs \cup LoadConfigs \cup SinkConfigs
=============================================================================
