------------------------------ MODULE AdminPanel ------------------------------
(***************************************************************************)
(* The administration panels of frontend-c, UserManagementPanel and        *)
(* RoleManagementPanel: a table read with a filter, a form, buttons in the *)
(* rows.  A handler calls the service, then reads the table again; a slot  *)
(* names the row whose buttons are disabled meanwhile.  Nothing keeps the  *)
(* user from starting other changes and applying other filters while       *)
(* calls run, and they are answered, or fail, in any order.                *)
(*                                                                         *)
(* The service is reduced to the number of changes it has made: a table    *)
(* read when it was v shows the first v changes and no others.  What the   *)
(* rows say is left out: any row may be in the table.                      *)
(***************************************************************************)
EXTENDS Integers

CONSTANTS
  Row,
  Form,        \* stands for the row that the form is about to create
  NoRow,
  Filter,
  NoFilter,    \* the filter of the first load
  MaxClicks,   \* bound on the changes asked for
  MaxApplies   \* bound on the filters applied

ASSUME RowAssumption == Form \notin Row /\ NoRow \notin Row \cup {Form}
ASSUME BoundAssumption == MaxClicks \in Nat /\ MaxApplies \in Nat

VARIABLES
  panel,      \* "users" or "roles"
  rows,       \* the table shown: which load read it, when, with which filter, of what age
  listError,  \* whether an error is shown above the table
  slot,       \* busy, busyUserId (busyRoleId) and busyRoleUserId
  editing,    \* the row whose name is being edited
  options,    \* whether there are roles to choose from
  filters,    \* listFilters
  ops,        \* changes under way
  loads,      \* reads of the table under way
  version,    \* the changes the service has made
  clicks, begun,
  applies,    \* the filters applied; the age of a reload is what it was at the click
  (* history, read by the properties only *)
  acked,      \* the latest change that the panel was told of
  newest,     \* the latest load that was answered
  mixed       \* the slots in which changes of different rows have met

screen == <<rows, listError, slot, editing, options, filters>>
calls == <<ops, loads, version>>
vars == <<panel, screen, calls, clicks, begun, applies, acked, newest, mixed>>

-----------------------------------------------------------------------------
Slots == {"form", "row", "role"}

SlotOf(kind) ==
  CASE kind = "create"             -> "form"
    [] kind \in {"save", "delete"} -> "row"
    [] OTHER                       -> "role"

UserChanges == {"create", "save", "delete", "assign", "remove"}

RoleChanges == {"create", "save", "delete"}

\* UserManagementPanel or RoleManagementPanel
Changes == IF panel = "users" THEN UserChanges ELSE RoleChanges

\* a button is disabled while its slot names its row
ButtonShown(kind, row) ==
  /\ slot[SlotOf(kind)] # row
  /\ CASE kind = "create" -> row = Form
       [] kind = "save"   -> row \in Row /\ editing = row
       [] kind = "delete" -> row \in Row /\ editing # row
       [] OTHER           -> row \in Row /\ options

Unread == -1

\* mutant: the callback that reads the table keeps the first filter
FirstFilter(captured) == NoFilter

FilterOf(captured) == captured

\* reloadList, with the filter its caller was rendered with
Load(op, captured, age) ==
  /\ begun' = begun + 1
  /\ listError' = FALSE
  /\ loads' = loads \cup
       {[n |-> begun + 1, op |-> op, filter |-> FilterOf(captured), age |-> age,
         seen |-> Unread]}

Running(s) == {o \in ops : SlotOf(o.kind) = s}

Take(kind, row) ==
  /\ slot' = [slot EXCEPT ![SlotOf(kind)] = row]
  /\ mixed' = IF \E o \in Running(SlotOf(kind)) : o.row # row
              THEN mixed \cup {SlotOf(kind)} ELSE mixed

\* mutant: the buttons come back with the answer, before the table is read again
FreeAtAnswer(o) == slot' = [slot EXCEPT ![SlotOf(o.kind)] = NoRow]

KeepBusy(o) == slot' = slot

\* finally: whichever row the slot names
Finish(o) ==
  /\ ops' = ops \ {o}
  /\ slot' = [slot EXCEPT ![SlotOf(o.kind)] = NoRow]
  /\ mixed' = IF Running(SlotOf(o.kind)) = {o} THEN mixed \ {SlotOf(o.kind)} ELSE mixed

-----------------------------------------------------------------------------
(* Changes. *)

\* mutant: the table is read again at every render while the change is awaited
AwaitedStill(o) == o.made > 0

Awaited(o) == o.made > 0 /\ ~ o.reading

Click(kind, row) ==
  /\ clicks < MaxClicks
  /\ kind \in Changes /\ ButtonShown(kind, row)
  /\ clicks' = clicks + 1
  /\ Take(kind, row)
  /\ listError' = (listError /\ kind = "create")
  /\ ops' = ops \cup {[id |-> clicks + 1, kind |-> kind, row |-> row, filter |-> filters,
                       age |-> applies, made |-> 0, reading |-> FALSE]}
  /\ UNCHANGED <<panel, rows, editing, options, filters, loads, version, begun, applies,
                 acked, newest>>

\* the service makes the change
Make(o) ==
  /\ o.made = 0
  /\ version' = version + 1
  /\ ops' = (ops \ {o}) \cup {[o EXCEPT !.made = version + 1]}
  /\ UNCHANGED <<panel, screen, loads, clicks, begun, applies, acked, newest, mixed>>

\* a save that succeeded ends editing, of whichever row
Answered(o) ==
  /\ Awaited(o)
  /\ acked' = IF o.made > acked THEN o.made ELSE acked
  /\ editing' = IF o.kind = "save" THEN NoRow ELSE editing
  /\ ops' = (ops \ {o}) \cup {[o EXCEPT !.reading = TRUE]}
  /\ Load(o.id, o.filter, o.age)
  /\ KeepBusy(o)
  /\ UNCHANGED <<panel, rows, options, filters, version, clicks, applies, newest, mixed>>

\* the change may have been made all the same; the form has an error of its own
ChangeFails(o) ==
  /\ ~ o.reading
  /\ listError' = (listError \/ o.kind # "create")
  /\ Finish(o)
  /\ UNCHANGED <<panel, rows, editing, options, filters, loads, version, clicks, begun,
                 applies, acked, newest>>

-----------------------------------------------------------------------------
(* Reads. *)

Apply ==
  /\ applies < MaxApplies
  /\ applies' = applies + 1
  /\ \E f \in Filter : filters' = f /\ Load(0, f, applies + 1)
  /\ UNCHANGED <<panel, rows, slot, editing, options, ops, version, clicks, acked, newest, mixed>>

Read(l) ==
  /\ l.seen = Unread
  /\ loads' = (loads \ {l}) \cup {[l EXCEPT !.seen = version]}
  /\ UNCHANGED <<panel, screen, ops, version, clicks, begun, applies, acked, newest,
                 mixed>>

LoadEnds(l) ==
  /\ loads' = loads \ {l}
  /\ IF l.op = 0 THEN UNCHANGED <<ops, slot, mixed>>
                 ELSE \E o \in ops : o.id = l.op /\ Finish(o)

Loaded(l) ==
  /\ l.seen # Unread
  /\ rows' = [n |-> l.n, seen |-> l.seen, filter |-> l.filter, age |-> l.age]
  /\ newest' = IF l.n > newest THEN l.n ELSE newest
  /\ LoadEnds(l)
  /\ UNCHANGED <<panel, listError, editing, options, filters, version, clicks, begun, applies,
                 acked>>

LoadFails(l) ==
  /\ listError' = TRUE
  /\ LoadEnds(l)
  /\ UNCHANGED <<panel, rows, editing, options, filters, version, clicks, begun, applies,
                 acked, newest>>

OptionsLoaded ==
  /\ panel = "users" /\ ~ options
  /\ options' = TRUE
  /\ UNCHANGED <<panel, rows, listError, slot, editing, filters, calls, clicks, begun, applies,
                 acked, newest, mixed>>

-----------------------------------------------------------------------------
(* Editing a name. *)

EditStart(row) ==
  /\ editing # row /\ slot["row"] # row
  /\ editing' = row
  /\ UNCHANGED <<panel, rows, listError, slot, options, filters, calls, clicks, begun, applies,
                 acked, newest, mixed>>

EditCancel ==
  /\ editing # NoRow /\ slot["row"] # editing
  /\ editing' = NoRow
  /\ UNCHANGED <<panel, rows, listError, slot, options, filters, calls, clicks, begun, applies,
                 acked, newest, mixed>>

Nothing == [n |-> 0, seen |-> 0, filter |-> NoFilter, age |-> 0]

Init ==
  /\ panel \in {"users", "roles"}
  /\ rows = Nothing /\ listError = FALSE
  /\ slot = [s \in Slots |-> NoRow] /\ editing = NoRow
  /\ options = FALSE
  /\ filters = NoFilter
  /\ ops = {}
  /\ loads = {[n |-> 1, op |-> 0, filter |-> NoFilter, age |-> 0, seen |-> Unread]}
  /\ version = 0 /\ clicks = 0 /\ begun = 1 /\ applies = 0
  /\ acked = 0 /\ newest = 0 /\ mixed = {}

Change(o) == Make(o) \/ Answered(o) \/ ChangeFails(o)

Next ==
  \/ \E kind \in UserChanges, row \in Row \cup {Form} : Click(kind, row)
  \/ \E o \in ops : Change(o)
  \/ \E l \in loads : Read(l) \/ Loaded(l) \/ LoadFails(l)
  \/ Apply \/ OptionsLoaded
  \/ \E row \in Row : EditStart(row)
  \/ EditCancel

Spec == Init /\ [][Next]_vars
-----------------------------------------------------------------------------
(* Properties. *)

Filters == Filter \cup {NoFilter}
AnyRow == Row \cup {Form, NoRow}

TypeOK ==
  /\ panel \in {"users", "roles"}
  /\ rows \in [n : 0 .. begun, seen : 0 .. version, filter : Filters, age : 0 .. applies]
  /\ listError \in BOOLEAN
  /\ slot \in [Slots -> AnyRow]
  /\ editing \in Row \cup {NoRow}
  /\ options \in BOOLEAN
  /\ filters \in Filters
  /\ ops \subseteq [id : 1 .. clicks, kind : Changes, row : Row \cup {Form}, filter : Filters,
                    age : 0 .. applies, made : 0 .. version, reading : BOOLEAN]
  /\ loads \subseteq [n : 1 .. begun, op : 0 .. clicks, filter : Filters, age : 0 .. applies,
                      seen : {Unread} \cup 0 .. version]
  /\ version \in 0 .. clicks /\ clicks \in 0 .. MaxClicks
  /\ begun \in 1 .. MaxClicks + MaxApplies + 1 /\ applies \in 0 .. MaxApplies
  /\ acked \in 0 .. version /\ newest \in 0 .. begun
  /\ mixed \subseteq Slots

(* Once nothing is under way and no error is shown, the table contains every  *)
(* change the panel was told of, unless the answer of an older read came      *)
(* last; and it was read with the filters applied, unless a change clicked    *)
(* before they were applied has read it again with those it was rendered      *)
(* with.                                                                      *)
FreshList ==
  ops = {} /\ loads = {} /\ ~ listError /\ rows.n = newest =>
    /\ rows.seen >= acked
    /\ rows.filter = filters \/ rows.age < applies

(* The buttons of a row start one change at a time, the re-reading of the     *)
(* table included, unless a change of another row took or freed the slot they *)
(* share; and no slot stays taken when its changes have ended, so that no     *)
(* button is disabled for good.                                               *)
SlotsExplained ==
  \A s \in Slots :
    /\ slot[s] # NoRow => \E o \in ops : SlotOf(o.kind) = s /\ o.row = slot[s]
    /\ s \notin mixed => \A o1, o2 \in {o \in ops : SlotOf(o.kind) = s} : o1 = o2
=============================================================================
