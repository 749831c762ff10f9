--------------------------- MODULE Configuration ---------------------------
(***************************************************************************)
(* The part of the configuration that lives in the database                *)
(* (internal/config/loader.go, runtime.go): read by main at start-up and   *)
(* again by the message handler on every reload message.                   *)
(*                                                                         *)
(* MergeConfig copies the new values into the one Config struct that every *)
(* goroutine already holds a pointer to, without a lock: a reader sees     *)
(* some fields old and some new, and two copies that overlap leave a       *)
(* mixture.  The copy is modelled field by field, in any order.  main      *)
(* starts the subscription before it loads and the HTTP server after, so   *)
(* that the handler's copy may overlap main's, and requests begin when     *)
(* main's copy is complete.                                                *)
(***************************************************************************)
EXTENDS Integers, Sequences

CONSTANTS
    Field,            \* the fields the composed component reads
    Saved             \* what each version of the table parses to: a sequence
                      \* of functions on Field; a row that is missing or not a
                      \* number leaves 0

ASSUME ConfigurationConstants ==
    /\ Saved \in Seq([Field -> Nat])
    /\ Saved # << >>

VARIABLES
    version,          \* the version the table holds
    config,           \* the live struct
    loader,           \* what each loader has read, and has yet to copy
    started           \* main's copy is complete: the HTTP server runs

configVars == <<version, config, loader, started>>

Main == "main"
Handler == "handler"
Loader == {Main, Handler}

Version == DOMAIN Saved

-----------------------------------------------------------------------------
ConfigInit ==
    /\ version = 1
    /\ config = [f \in Field |-> 0]
    /\ loader = [l \in Loader |-> [read |-> 1, left |-> {}]]
    /\ started = FALSE

\* External: an operator changes the table.
ChangeTable ==
    /\ version + 1 \in Version
    /\ version' = version + 1
    /\ UNCHANGED <<config, loader, started>>

\* LoadDatabaseConfig reads the table: main once, the handler when a reload
\* message arrives, which the operator sends after a change.  A failed read
\* ends main's process, and leaves the handler and the configuration as they
\* were.
LoadDatabaseConfig(l) ==
    /\ loader[l].left = {}
    /\ IF l = Main THEN ~started ELSE loader[l].read # version
    /\ loader' = [loader EXCEPT ![l] = [read |-> version, left |-> Field]]
    /\ UNCHANGED <<version, config, started>>

\* Bug: the server starts with the copy.
MergeFieldServesEarlyBug(l, f) ==
    /\ f \in loader[l].left
    /\ config' = [config EXCEPT ![f] = Saved[loader[l].read][f]]
    /\ loader' = [loader EXCEPT ![l].left = @ \ {f}]
    /\ started' = (started \/ l = Main)
    /\ UNCHANGED version

\* MergeConfig copies one field of what l read.
MergeField(l, f) ==
    /\ f \in loader[l].left
    /\ config' = [config EXCEPT ![f] = Saved[loader[l].read][f]]
    /\ loader' = [loader EXCEPT ![l].left = @ \ {f}]
    /\ started' = (started \/ (l = Main /\ loader[l].left = {f}))
    /\ UNCHANGED version

ConfigNext ==
    \/ ChangeTable
    \/ \E l \in Loader : LoadDatabaseConfig(l) \/ \E f \in Field : MergeField(l, f)

-----------------------------------------------------------------------------
ConfigTypeOK ==
    /\ version \in Version
    /\ config \in [Field -> Nat]
    /\ loader \in [Loader -> [read : Version, left : SUBSET Field]]
    /\ started \in BOOLEAN

\* Every field of the live configuration comes from some version of the table
\* that main or the handler read, once requests are served: neither the zero
\* value of the struct nor a half-written copy of main's is left.
FieldsComeFromTheTable ==
    started => \A f \in Field : \E v \in 1 .. version : config[f] = Saved[v][f]
=============================================================================
