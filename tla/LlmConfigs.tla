----------------------------- MODULE LlmConfigs -----------------------------
(***************************************************************************)
(* The provider configurations and the requests that edit them             *)
(* (app/repositories/llm_provider_config_repository.py, the configuration  *)
(* routes of api/routes/llm.py).  Two requests may overlap: each reads its *)
(* row, then writes under the database's write lock.  Names, prices and    *)
(* keys are left out; a request refused with 400 or 404 changes nothing.   *)
(***************************************************************************)
EXTENDS Naturals

CONSTANTS
    Configs,      \* identifiers of provider configurations
    Admins,       \* configuration requests in flight
    MaxEdits,     \* bound: configuration requests
    Absent        \* no such row

VARIABLES
    config,   \* config[c]: the row of c, or Absent
    admin,    \* admin[a]: the request of session a and the row it has read
    edits     \* configuration requests so far

vars == <<config, admin, edits>>

Rows == [active : BOOLEAN, default : BOOLEAN]
Existing == {c \in Configs : config[c] # Absent}

-----------------------------------------------------------------------------
(* Configurations: a request reads its row, then flushes and commits        *)
(* under the database's write lock.  The ORM writes only the columns that   *)
(* differ from the row it has read.                                         *)

NoEdit == [op |-> "none"]
Edits == [op : {"save"}, id : Configs, active : BOOLEAN, default : BOOLEAN]
         \cup [op : {"default", "delete"}, id : Configs]
         \cup [op : {"toggle"}, id : Configs, active : BOOLEAN]

ReadConfig(a, e) ==
    /\ admin[a].op = "none" /\ edits < MaxEdits
    /\ e.op = "save" \/ config[e.id] # Absent      \* 404 otherwise
    /\ admin' = [admin EXCEPT ![a] = [op |-> e.op, edit |-> e, row |-> config[e.id],
                                      first |-> Existing = {}]]
    /\ edits' = edits + 1
    /\ UNCHANGED config

\* a column keeps the database's value unless the request changed it
Column(wanted, read, stored) == IF wanted # read THEN wanted ELSE stored

\* Mutation of OnlyDefault: the other rows keep their flag.
OnlyDefaultKept(rows, c) == rows

OnlyDefault(rows, c) ==
    [d \in Configs |-> IF d = c \/ rows[d] = Absent THEN rows[d]
                       ELSE [rows[d] EXCEPT !.default = FALSE]]

\* upsert_config on an existing or a new row
Saved(req) ==
    LET e == req.edit
        new == req.row = Absent
        wanted == IF new /\ req.first THEN [active |-> TRUE, default |-> TRUE]
                  ELSE [active |-> e.active, default |-> e.default]
        row == IF new THEN wanted
               ELSE [active |-> Column(e.active, req.row.active, config[e.id].active),
                     default |-> Column(e.default, req.row.default, config[e.id].default)]
        rows == [config EXCEPT ![e.id] = row]
    IN IF wanted.default THEN OnlyDefault(rows, e.id) ELSE rows

\* set_default: all rows lose the flag, then the chosen one gets it
MadeDefault(req) ==
    LET c == req.edit.id
    IN OnlyDefault([config EXCEPT ![c] =
            [active |-> Column(TRUE, req.row.active, config[c].active), default |-> TRUE]], c)

\* set_active_status
Toggled(req) ==
    LET c == req.edit.id
        on == req.edit.active
    IN [config EXCEPT ![c] =
            [active |-> Column(on, req.row.active, config[c].active),
             default |-> IF ~on /\ req.row.default THEN FALSE ELSE config[c].default]]

\* a row deleted in between fails the flush (StaleDataError) and rolls back;
\* so does a second insert of one identifier, which the database never hands out
Lost(req) == (req.row = Absent) # (config[req.edit.id] = Absent)

CommitConfig(a) ==
    LET req == admin[a] IN
    /\ req.op # "none"
    /\ config' = CASE Lost(req) -> config
                   [] ~Lost(req) /\ req.op = "save" -> Saved(req)
                   [] ~Lost(req) /\ req.op = "default" -> MadeDefault(req)
                   [] ~Lost(req) /\ req.op = "toggle" -> Toggled(req)
                   [] ~Lost(req) /\ req.op = "delete" -> [config EXCEPT ![req.edit.id] = Absent]
    /\ admin' = [admin EXCEPT ![a] = NoEdit]
    /\ UNCHANGED edits

-----------------------------------------------------------------------------
Init ==
    /\ config = [c \in Configs |-> Absent]
    /\ admin = [a \in Admins |-> NoEdit]
    /\ edits = 0

Next == \E a \in Admins : CommitConfig(a) \/ \E e \in Edits : ReadConfig(a, e)

Spec == Init /\ [][Next]_vars

-----------------------------------------------------------------------------
\* Every row has its two flags.
TypeOK ==
    /\ config \in [Configs -> Rows \cup {Absent}]
    /\ DOMAIN admin = Admins /\ edits \in 0..MaxEdits

\* Whatever configuration requests overlap, stale rows included, at most one
\* configuration is the default (set_default, upsert_config, set_active_status).
AtMostOneDefault ==
    \A c, d \in Existing : config[c].default /\ config[d].default => c = d
=============================================================================
