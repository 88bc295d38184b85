------------------------------- MODULE Startup -------------------------------
(***************************************************************************)
(* The start of a worker in the browser: wasm_init on the main thread, and *)
(* then build_worker on every serve thread, all on the one environment of  *)
(* the process.  std::env takes a lock for each call, so a call is a step; *)
(* a function that tests a variable and sets it is two.                    *)
(*                                                                         *)
(* The native binary runs build_worker alone, on its only thread.          *)
(***************************************************************************)
CONSTANTS Threads,   \* the serve threads
          Values     \* values a user may give a variable, UTF-8 text

\* The variables have these names in the code, with VGI_WORKER_ before them.
Vars == {"CATALOG_NAME", "SHARED_STORAGE"}

Unset == "unset"
NotUtf8 == "not_utf8"
Given == Values \union {Unset, NotUtf8}
Settings == Given \union {"tlsfp", "memory"}

ASSUME StartupAssumption == Values \intersect {Unset, NotUtf8} = {}

VARIABLES env,     \* the environment
          given,   \* what it was when the process was started
          main,    \* program point of wasm_init
          pc,      \* program point of catalog_name on each thread
          name     \* the catalog name of the workers that are built

vars == <<env, given, main, pc, name>>

Init ==
    /\ given \in [Vars -> Given]
    /\ env = given
    /\ main \in {"test", "served"}
    /\ pc = [t \in Threads |-> "test"]
    /\ name = [t \in Threads |-> Unset]

\* wasm_init: var_os, set_var; only then are the serve threads started.
InitTest ==
    /\ main = "test"
    /\ main' = IF env["SHARED_STORAGE"] = Unset THEN "set" ELSE "served"
    /\ UNCHANGED <<env, given, pc, name>>

InitSet ==
    /\ main = "set"
    /\ env' = [env EXCEPT !["SHARED_STORAGE"] = "memory"]
    /\ main' = "served"
    /\ UNCHANGED <<given, pc, name>>

\* catalog_name: var_os, set_var, var.
\* Mutant: a name that is not text is taken for none.
Test_Text(t) ==
    /\ main = "served" /\ pc[t] = "test"
    /\ pc' = [pc EXCEPT ![t] =
                IF env["CATALOG_NAME"] \in {Unset, NotUtf8} THEN "set" ELSE "read"]
    /\ UNCHANGED <<env, given, main, name>>

Test(t) ==
    /\ main = "served" /\ pc[t] = "test"
    /\ pc' = [pc EXCEPT ![t] =
                IF env["CATALOG_NAME"] = Unset THEN "set" ELSE "read"]
    /\ UNCHANGED <<env, given, main, name>>

SetDefault(t) ==
    /\ pc[t] = "set"
    /\ env' = [env EXCEPT !["CATALOG_NAME"] = "tlsfp"]
    /\ pc' = [pc EXCEPT ![t] = "read"]
    /\ UNCHANGED <<given, main, name>>

\* Mutant: what is not text becomes the name.
Read_Lossy(t) ==
    /\ pc[t] = "read"
    /\ name' = [name EXCEPT ![t] = env["CATALOG_NAME"]]
    /\ pc' = [pc EXCEPT ![t] = "built"]
    /\ UNCHANGED <<env, given, main>>

Read(t) ==
    /\ pc[t] = "read"
    /\ name' = [name EXCEPT ![t] =
                  IF env["CATALOG_NAME"] \in {Unset, NotUtf8} THEN "tlsfp"
                  ELSE env["CATALOG_NAME"]]
    /\ pc' = [pc EXCEPT ![t] = "built"]
    /\ UNCHANGED <<env, given, main>>

Serving ==
    /\ main = "served" /\ \A t \in Threads : pc[t] = "built"
    /\ UNCHANGED vars

Next ==
    \/ InitTest \/ InitSet \/ Serving
    \/ \E t \in Threads : Test(t) \/ SetDefault(t) \/ Read(t)

Spec == Init /\ [][Next]_vars

-----------------------------------------------------------------------------
\* lib.rs:339-340, "defaults to `tlsfp`, but honors an explicit override": every
\* worker of the process serves the catalog under the name that was given when it
\* started, whatever the other threads were doing while it was built, and under
\* the default when none was given or it is not text.
OneCatalog ==
    \A t \in Threads : pc[t] = "built" =>
        name[t] = IF given["CATALOG_NAME"] \in Values THEN given["CATALOG_NAME"]
                  ELSE "tlsfp"

\* A variable that has a value keeps it: a thread that tested it before another
\* set it does not take an override away, and a name that a worker was built with
\* stays the name that the environment shows.
SettingsStay ==
    [][\A v \in Vars : env[v] # Unset => env'[v] = env[v]]_vars
=============================================================================
