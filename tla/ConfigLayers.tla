---------------------------- MODULE ConfigLayers ----------------------------
(***************************************************************************)
(* How the runtime comes by its configuration: the local overlay found and *)
(* merged over the shipped robot file and over the tool files, the tool    *)
(* fitted, the bundle cross-checked.  Documents are trees of tables,       *)
(* arrays and scalars; keys are strings, scalars and names small numbers.  *)
(***************************************************************************)
EXTENDS Naturals, Sequences

CONSTANTS
  Shipped,    \* robot files: tables
  Overlays,   \* overlays: tables
  ToolFiles,  \* the tool files beside the robot file: sequences of tables
  Named,      \* how the overlay is named: "explicit", "env", "beside", "missing", "not_a_file"
  Fitted,     \* tools named by the operator, 0 for none
  PerJoint    \* PER_JOINT: keys of arrays with one entry per joint

VARIABLES
  files,    \* what is on disk: robot file, overlay, tool files, where the overlay is
  fitted,   \* the tool the operator names
  stage,    \* where the load stands
  local,    \* the overlay in force: <<>> or <<table>>
  robot,    \* the robot document
  tools     \* the tool documents

vars == <<files, fitted, stage, local, robot, tools>>

Scalar(v) == [k |-> "scalar", v |-> v]
Table(f) == [k |-> "table", f |-> f]
Array(s) == [k |-> "array", s |-> s]
Fault == [k |-> "fault"]

Has(t, key) == key \in DOMAIN t

-----------------------------------------------------------------------------
(* Merging. *)

IsTables(s) == s # <<>> /\ \A i \in DOMAIN s : s[i].k = "table"

AllNamed(s) == \A i \in DOMAIN s : Has(s[i].f, "name")

\* The entry an overlay entry changes: the first of its name, or the one at its place.
Into(b, entry, i, byName) ==
  IF byName
  THEN {j \in DOMAIN b : /\ b[j].f["name"] = entry.f["name"]
                         /\ \A m \in 1..(j - 1) : b[m].f["name"] # entry.f["name"]}
  ELSE {i} \cap DOMAIN b

RECURSIVE Merge(_, _)
RECURSIVE MergeEntries(_, _, _, _)

\* Entry by entry; one with nothing to change is added.
MergeEntries(b, o, i, byName) ==
  IF i > Len(o) THEN b
  ELSE LET into == Into(b, o[i], i, byName)
           next == IF into = {} THEN Append(b, o[i])
                   ELSE [b EXCEPT ![CHOOSE j \in into : TRUE] = Table(Merge(@.f, o[i].f))]
       IN MergeEntries(next, o, i + 1, byName)

\* Which arrays merge rather than replace.
Mergeable(key, b, o) ==
  /\ b.k = "array" /\ o.k = "array"
  /\ IsTables(b.s) /\ IsTables(o.s)
  /\ AllNamed(b.s) \/ key \in PerJoint

\* Mutant of MergeValue: a table of the overlay replaces the shipped one whole.
MergeValueWhole(key, b, o) ==
  IF Mergeable(key, b, o) /\ AllNamed(o.s) THEN Array(MergeEntries(b.s, o.s, 1, AllNamed(b.s)))
  ELSE o

MergeValue(key, b, o) ==
  IF b.k = "table" /\ o.k = "table" THEN Table(Merge(b.f, o.f))
  ELSE IF ~Mergeable(key, b, o) THEN o
  ELSE IF AllNamed(b.s) /\ ~AllNamed(o.s) THEN Fault
  ELSE Array(MergeEntries(b.s, o.s, 1, AllNamed(b.s)))

\* Tables merge key by key.
Merge(b, o) ==
  [key \in DOMAIN b \cup DOMAIN o |->
     IF ~Has(o, key) THEN b[key] ELSE IF ~Has(b, key) THEN o[key] ELSE MergeValue(key, b[key], o[key])]

RECURSIVE Faulty(_)
Faulty(v) ==
  \/ v.k = "fault"
  \/ v.k = "table" /\ \E key \in DOMAIN v.f : Faulty(v.f[key])
  \/ v.k = "array" /\ \E i \in DOMAIN v.s : Faulty(v.s[i])

Without(t, key) == [x \in DOMAIN t \ {key} |-> t[x]]

\* The old spelling of the tool's key, as the key it aliases.
Unalias(doc) ==
  IF ~Has(doc, "robot") \/ ~Has(doc["robot"].f, "active_gripper") \/ Has(doc["robot"].f, "active_tool")
  THEN doc
  ELSE LET r == doc["robot"].f IN
       [doc EXCEPT !["robot"] = Table([x \in (DOMAIN r \ {"active_gripper"}) \cup {"active_tool"} |->
                                         IF x = "active_tool" THEN r["active_gripper"] ELSE r[x]])]

-----------------------------------------------------------------------------
(* The load. *)

At(s) == stage = s

Refuse == stage' = "refused" /\ UNCHANGED <<local, robot, tools>>

\* local_overlay: a named file that is not there is an error, one beside the robot file
\* is optional, something there that is no file is not "none".
LocalOverlay ==
  /\ At("locate")
  /\ CASE files.where \in {"explicit", "env", "beside"} ->
            stage' = "robot" /\ local' = <<files.overlay>> /\ UNCHANGED <<robot, tools>>
       [] files.where = "none" ->
            stage' = "robot" /\ local' = <<>> /\ UNCHANGED <<robot, tools>>
       [] OTHER -> Refuse
  /\ UNCHANGED <<files, fitted>>

\* layered_table: the robot file with the overlay, less its tools, merged over it.
LayeredTable ==
  IF local = <<>> THEN files.shipped
  ELSE Merge(Unalias(files.shipped), Unalias(Without(local[1], "tools")))

\* The strict schema reads the old spelling of the tool's key as an alias.
LoadRobot ==
  /\ At("robot")
  /\ IF Faulty(Table(LayeredTable)) THEN Refuse
     ELSE /\ robot' = Unalias(LayeredTable) /\ stage' = "tools"
          /\ UNCHANGED <<local, tools>>
  /\ UNCHANGED <<files, fitted>>

\* tool_overlays: every entry names the tool it changes.
Entries == IF local = <<>> \/ ~Has(local[1], "tools") THEN <<>> ELSE local[1]["tools"].s

EntryFor(file) ==
  {k \in DOMAIN Entries : /\ Has(file, "name") /\ Entries[k].f["name"] = file["name"]
                          /\ \A m \in 1..(k - 1) : Entries[m].f["name"] # file["name"]}

\* Mutant of LayeredTool: the overlay's entries are looked up by place.
LayeredToolByPlace(file, i) ==
  IF i \in DOMAIN Entries THEN Merge(file, Entries[i].f) ELSE file

\* layered_tool: the file with the entry naming its tool merged over it.
LayeredTool(file, i) ==
  IF EntryFor(file) = {} THEN file ELSE Merge(file, Entries[CHOOSE k \in EntryFor(file) : TRUE].f)

\* An entry no tool file took is refused by name.
Layered == UNION {EntryFor(files.tools[i]) : i \in DOMAIN files.tools}

LoadTools ==
  /\ At("tools")
  /\ IF \/ \E i \in DOMAIN Entries : Entries[i].k # "table" \/ ~Has(Entries[i].f, "name")
        \/ \E i \in DOMAIN files.tools : Faulty(Table(LayeredTool(files.tools[i], i)))
        \/ Layered # DOMAIN Entries
     THEN Refuse
     ELSE /\ tools' = [i \in DOMAIN files.tools |-> LayeredTool(files.tools[i], i)]
          /\ stage' = "fit" /\ UNCHANGED <<local, robot>>
  /\ UNCHANGED <<files, fitted>>

NameOf(t) == t["name"].v

\* load_fitted: the operator's tool over the file's; an unknown name is refused.
Fit ==
  /\ At("fit")
  /\ IF fitted = 0 THEN stage' = "check" /\ UNCHANGED <<local, robot, tools>>
     ELSE IF ~\E i \in DOMAIN tools : NameOf(tools[i]) = fitted THEN Refuse
     ELSE /\ robot' = [robot EXCEPT !["robot"] = Table([@.f EXCEPT !["active_tool"] = Scalar(fitted)])]
          /\ stage' = "check" /\ UNCHANGED <<local, tools>>
  /\ UNCHANGED <<files, fitted>>

ActiveTool == {i \in DOMAIN tools : Scalar(NameOf(tools[i])) = robot["robot"].f["active_tool"]}

Ids(ts) == {i \in DOMAIN ts : Has(ts[i], "can_tool_id")}

\* validate: one tool per id, and a tool of the active name.
Validate ==
  /\ At("check")
  /\ IF \/ \E i, j \in Ids(tools) : i # j /\ tools[i]["can_tool_id"] = tools[j]["can_tool_id"]
        \/ ActiveTool = {}
     THEN Refuse
     ELSE stage' = "loaded" /\ UNCHANGED <<local, robot, tools>>
  /\ UNCHANGED <<files, fitted>>

Init ==
  /\ files \in [shipped : Shipped, overlay : Overlays, tools : ToolFiles, where : Named]
  /\ fitted \in Fitted
  /\ stage = "locate" /\ local = <<>> /\ robot = <<>> /\ tools = <<>>

Next == LocalOverlay \/ LoadRobot \/ LoadTools \/ Fit \/ Validate

Spec == Init /\ [][Next]_vars

-----------------------------------------------------------------------------
(* What layering means, leaf by leaf. *)

\* The scalars of a document, by path; an entry of a named array is on the path by its
\* name, any other by its place.
Step(s, i) == IF AllNamed(s) THEN <<"name", s[i].f["name"].v>> ELSE <<"place", i>>

RECURSIVE Leaves(_)
Leaves(v) ==
  CASE v.k = "scalar" -> {[path |-> <<>>, v |-> v.v]}
    [] v.k = "table"  -> UNION {{[path |-> <<<<key, 0>>>> \o l.path, v |-> l.v] :
                                   l \in Leaves(v.f[key])} : key \in DOMAIN v.f}
    [] v.k = "array" /\ ~IsTables(v.s) -> {[path |-> <<>>, v |-> Len(v.s)]}
    [] OTHER          -> UNION {{[path |-> <<Step(v.s, i)>> \o l.path, v |-> l.v] :
                                   l \in Leaves(v.s[i])} : i \in DOMAIN v.s}

Paths(ls) == {l.path : l \in ls}

\* Every scalar the overlay states is the loaded one; every shipped one it does not
\* state is untouched; nothing else appears. Under either spelling of the tool's key,
\* and for each tool with the entry that names it (merge, unalias, layered_tool).
LayeringIsExact ==
  stage = "loaded" =>
    /\ LET over == IF local = <<>> THEN {} ELSE Leaves(Table(Unalias(Without(local[1], "tools"))))
           base == Leaves(Table(Unalias(files.shipped)))
           fit  == {l \in Leaves(Table(robot)) : l.path # <<<<"robot", 0>>, <<"active_tool", 0>>>>}
           want == over \cup {l \in base : l.path \notin Paths(over)}
       IN /\ fit = {l \in want : l.path # <<<<"robot", 0>>, <<"active_tool", 0>>>>}
          /\ fitted = 0 => Leaves(Table(robot)) = want
    /\ \A i \in DOMAIN tools :
         LET over == UNION {Leaves(Entries[k]) : k \in EntryFor(files.tools[i])}
         IN Leaves(Table(tools[i])) =
              over \cup {l \in Leaves(Table(files.tools[i])) : l.path \notin Paths(over)}

=============================================================================
