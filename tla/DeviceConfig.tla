---------------------------- MODULE DeviceConfig ----------------------------
(***************************************************************************)
(* From a device's entry in devices.json to its engine                     *)
(* (core/ModbusConfigLoader.cpp, parseDeviceObject and what it calls, and  *)
(* the constructor of ModbusPollEngine): fields of the template and of the *)
(* device, lists of points to be multiplied by PT and CT, the map of rows, *)
(* and the read plan.  An exception leaves no profile: the device is       *)
(* refused.                                                                *)
(*                                                                         *)
(* JSON files are abstracted to what was parsed of them; a value that the  *)
(* loader rejects is Malformed, whatever is wrong with it.                 *)
(***************************************************************************)
EXTENDS ReadPlan, SequencesExt

CONSTANTS
  Configs,    \* the entries a device may have, see Config
  Malformed,  \* a section the loader throws at
  None        \* a section or a file that is not there

VARIABLES
  stage,      \* the next step of loading
  config,     \* the entry, with the files it refers to
  writeMap    \* the field_map write_points is made of

loadVars == <<stage, config, writeMap>>
vars == <<planVars, loadVars>>

(***************************************************************************)
(* A config has                                                            *)
(*   template  : fields of the template, None without the file             *)
(*   own       : read.fields of the device, None if it has none            *)
(*   tplLists, ownLists : the lists pt, ct and pt_ct of either, as sets    *)
(*   valid     : are id, mysql_table and transport as they should be?      *)
(*   table     : mysql_table                                               *)
(*   tables    : of the sink, a sequence of [mysql, prefix, map]           *)
(*   maps      : the field_maps, a function to TRUE or FALSE: are all of   *)
(*               its entries good?  None without the file                  *)
(* and fields are sequences of [name, area, address, span, stride, pt, ct] *)
(* with pt and ct for pt_exp and ct_exp, 0 where a field has none.         *)
(***************************************************************************)

\* What parseFields takes for fields; it does not ask for the sign of an address, a
\* stride or an exponent.
FieldsAre(fields) ==
  /\ Len(fields) \in Nat
  /\ \A i \in 1 .. Len(fields) :
       /\ [area |-> fields[i].area, address |-> fields[i].address,
           span |-> fields[i].span, stride |-> fields[i].stride] \in Point
       /\ fields[i].pt \in Int /\ fields[i].ct \in Int

ASSUME ConfigAssumption ==
  \A c \in Configs :
    /\ c.template \in {None, Malformed} \/ FieldsAre(c.template)
    /\ c.own \in {None, Malformed} \/ FieldsAre(c.own)
    /\ Len(c.tables) \in Nat

Stages == {"template", "own", "tplLists", "ownLists", "checks", "sink", "engine", "refused"}

InitConfig ==
  /\ stage = "template"
  /\ config \in Configs
  /\ writeMap = None
  /\ pc = "sort" /\ points = <<>> /\ cluster = 1 /\ sorted = <<>> /\ next = 1 /\ plan = <<>>

------------------------------------------------------------------------------

Refuse == stage' = "refused" /\ UNCHANGED points
Loading == UNCHANGED <<pc, cluster, sorted, next, plan, config>>

\* parseFields: points of their own, with the exponents of PT and CT they declare.
Parsed(fields) ==
  [i \in 1 .. Len(fields) |->
     [name |-> fields[i].name, area |-> fields[i].area, address |-> fields[i].address,
      span |-> fields[i].span, stride |-> fields[i].stride,
      pt |-> fields[i].pt, ct |-> fields[i].ct]]

\* resolveTemplate and parseReadSection of the template.
ReadTemplate ==
  /\ stage = "template"
  /\ IF config.template \in {None, Malformed} THEN Refuse
     ELSE stage' = "own" /\ points' = Parsed(config.template)
  /\ UNCHANGED writeMap /\ Loading

\* The fields of the device replace those of the template.
OwnFields == IF config.own = None THEN points ELSE Parsed(config.own)

ReadOwn ==
  /\ stage = "own"
  /\ IF config.own = Malformed THEN Refuse
     ELSE stage' = "tplLists" /\ points' = OwnFields
  /\ UNCHANGED writeMap /\ Loading

\* The point a name of a list stands for: the first that has it.
FirstNamed(name) == SelectInSeq(points, LAMBDA p : p.name = name)

\* applyPtCtNameList for the three lists of a section.
MultipliedAnew(i, listed, before) ==
  IF \E n \in listed : i = FirstNamed(n) THEN 1 ELSE 0
Multiplied(i, listed, before) ==
  IF \E n \in listed : i = FirstNamed(n) THEN 1 ELSE before

ApplyLists(lists, then) ==
  IF \E n \in lists.pt \cup lists.ct \cup lists.both : FirstNamed(n) = 0
    THEN Refuse
    ELSE /\ stage' = then
         /\ points' = [i \in 1 .. Len(points) |->
              [points[i] EXCEPT !.pt = Multiplied(i, lists.pt \cup lists.both, @),
                                !.ct = Multiplied(i, lists.ct \cup lists.both, @)]]

ApplyTemplateLists ==
  /\ stage = "tplLists"
  /\ ApplyLists(config.tplLists, "ownLists")
  /\ UNCHANGED writeMap /\ Loading

ApplyOwnLists ==
  /\ stage = "ownLists"
  /\ ApplyLists(config.ownLists, "checks")
  /\ UNCHANGED writeMap /\ Loading

CheckProfile ==
  /\ stage = "checks"
  /\ IF points = <<>> \/ ~config.valid \/ config.maps = None
       THEN Refuse ELSE stage' = "sink" /\ UNCHANGED points
  /\ UNCHANGED writeMap /\ Loading

\* loadSinkWriteMap: the first entry of tables that names the table in either way, or
\* else the only map there is.
HitExact(t) == t.mysql = config.table
Hit(t) == config.table \in {t.mysql, t.prefix}
SoleMap == IF Cardinality(DOMAIN config.maps) = 1 THEN CHOOSE m \in DOMAIN config.maps : TRUE
                                                  ELSE None
FirstHit == SelectInSeq(config.tables, Hit)
HitMap == IF FirstHit = 0 THEN None ELSE config.tables[FirstHit].map
Route == IF HitMap = None THEN SoleMap ELSE HitMap

LoadSink ==
  /\ stage = "sink"
  /\ IF Route \in DOMAIN config.maps /\ config.maps[Route]
       THEN stage' = "engine" /\ writeMap' = Route /\ UNCHANGED points
       ELSE Refuse /\ UNCHANGED writeMap
  /\ Loading

\* The engine builds its plan, and builds it anew for every cluster it turns to.
RunEngine ==
  /\ stage = "engine"
  /\ Next
  /\ UNCHANGED loadVars

NextConfig ==
  \/ ReadTemplate \/ ReadOwn \/ ApplyTemplateLists \/ ApplyOwnLists
  \/ CheckProfile \/ LoadSink \/ RunEngine

SpecConfig == InitConfig /\ [][NextConfig]_vars

------------------------------------------------------------------------------

Listed(l) == config.tplLists[l] \cup config.ownLists[l] \cup
             config.tplLists.both \cup config.ownLists.both
NamesUnique == \A i, j \in 1 .. Len(points) : points[i].name = points[j].name => i = j

\* The fields a device's points are made of: its own, or else those of its template.
Declared == IF config.own = None THEN config.template ELSE config.own

\* What is published under a name is multiplied by PT and CT as the files say: once if a
\* list of the template or of the device names it ("避免写错静默不乘": a name no list can
\* place refuses the device), and otherwise by the exponents of its own field ("pt_exp /
\* ct_exp 兼容旧点表的逐点覆盖；电表优先用模板根 pt_ct 名单"), also when the device replaces
\* the fields of the template, both have lists, or the lists of one name points whose
\* exponents the other declares.  It takes unique names, which nothing checks: of two
\* points of a name the first is multiplied and the last published.
MultipliedAsConfigured ==
  stage = "engine" /\ NamesUnique =>
    /\ Len(points) = Len(Declared)
    /\ \A i \in 1 .. Len(points) :
         /\ points[i].name = Declared[i].name
         /\ points[i].pt = IF points[i].name \in Listed("pt") THEN 1 ELSE Declared[i].pt
         /\ points[i].ct = IF points[i].name \in Listed("ct") THEN 1 ELSE Declared[i].ct
    /\ Listed("pt") \cup Listed("ct") \subseteq {points[i].name : i \in 1 .. Len(points)}

\* Reference: exact entry, prefix entry, sole map, in this order.
FirstOf(hits) == config.tables[CHOOSE i \in hits : \A j \in hits : i <= j].map
ExactHits  == {i \in 1 .. Len(config.tables) : config.tables[i].mysql = config.table}
PrefixHits == {i \in 1 .. Len(config.tables) : config.tables[i].prefix = config.table}
RouteByRank ==
  IF ExactHits # {} THEN FirstOf(ExactHits)
  ELSE IF PrefixHits # {} THEN FirstOf(PrefixHits)
  ELSE SoleMap

\* Rows are written by the map that the order of the comment leads to ("① mysql 精确命中
\* → ② mysql_prefix 命中 → ③ 唯一 field_map 兜底").  It takes tables with no prefix entry
\* of a table ahead of its exact one: the code stops at whichever comes first.
RoutedByRank ==
  stage = "engine" /\ ~(\E e \in ExactHits, p \in PrefixHits : p < e)
    => \/ writeMap = RouteByRank
       \/ RouteByRank = None /\ writeMap = SoleMap
=============================================================================
