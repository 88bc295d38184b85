---------------------------- MODULE StartupProofs ----------------------------
(***************************************************************************)
(* For any number of serve threads and any values of the two variables.    *)
(***************************************************************************)
EXTENDS Startup, TLAPS

Catalog == env["CATALOG_NAME"]
GivenName == given["CATALOG_NAME"]

\* Nobody changes a name that was given, and a thread that is about to set the
\* default knows that none was.
CatalogInv ==
    /\ env \in [Vars -> Settings] /\ given \in [Vars -> Given]
    /\ pc \in [Threads -> {"test", "set", "read", "built"}]
    /\ DOMAIN name = Threads
    /\ main = "set" => env["SHARED_STORAGE"] = Unset
    /\ Catalog = GivenName \/ (GivenName = Unset /\ Catalog = "tlsfp")
    /\ \A t \in Threads :
        /\ pc[t] = "set" => GivenName = Unset
        /\ pc[t] = "read" => Catalog # Unset

IInv == CatalogInv /\ OneCatalog

LEMMA Initially == Init => IInv
BY DEF Init, IInv, CatalogInv, OneCatalog, Catalog, GivenName, Settings, Vars

LEMMA Stepping == IInv /\ [Next]_vars => IInv'
<1> SUFFICES ASSUME IInv, [Next]_vars PROVE IInv'
    OBVIOUS
<1> USE DEF IInv, CatalogInv, OneCatalog, Catalog, GivenName, Vars
<1>1. CASE InitTest
    BY <1>1 DEF InitTest
<1>2. CASE InitSet
    BY <1>2 DEF InitSet, Settings
<1>3. ASSUME NEW t \in Threads, Test(t) PROVE IInv'
    BY <1>3 DEF Test, Unset
<1>4. ASSUME NEW t \in Threads, SetDefault(t) PROVE IInv'
    BY <1>4 DEF SetDefault, Settings, Unset
<1>5. ASSUME NEW t \in Threads, Read(t) PROVE IInv'
  <2>1. CatalogInv'
    BY <1>5 DEF Read
  <2>2. Catalog # Unset
    BY <1>5 DEF Read
  <2>3. (IF Catalog \in {Unset, NotUtf8} THEN "tlsfp" ELSE Catalog)
           = IF GivenName \in Values THEN GivenName ELSE "tlsfp"
    BY <2>2, StartupAssumption DEF Given
  <2>4. OneCatalog'
    BY <1>5, <2>3 DEF Read
  <2> QED
    BY <2>1, <2>4
<1>6. CASE UNCHANGED vars
    BY <1>6 DEF vars
<1> QED
    BY <1>1, <1>2, <1>3, <1>4, <1>5, <1>6 DEF Next, Serving

\* lib.rs:339-346: however the three calls of catalog_name interleave on however
\* many threads, all workers get the name that was given, or the default.
THEOREM CatalogName == Spec => []OneCatalog
<1>1. IInv => OneCatalog
    BY DEF IInv
<1> QED
    BY Initially, Stepping, <1>1, PTL DEF Spec

LEMMA StepKeepsSettings ==
    IInv /\ [Next]_vars => [\A v \in Vars : env[v] # Unset => env'[v] = env[v]]_vars
<1> SUFFICES ASSUME IInv, Next, NEW v \in Vars, env[v] # Unset
             PROVE env'[v] = env[v]
    BY DEF vars
<1> USE DEF IInv, CatalogInv, Catalog, GivenName, Vars
<1>1. CASE InitSet
    BY <1>1 DEF InitSet
<1>2. ASSUME NEW t \in Threads, SetDefault(t) PROVE env'[v] = env[v]
    BY <1>2 DEF SetDefault
<1>3. CASE UNCHANGED env
    BY <1>3
<1> QED
    BY <1>1, <1>2, <1>3 DEF Next, InitTest, Test, Read, Serving, vars

\* lib.rs:342-344 and tlsfp-wasm's wasm_init: test-and-set in two calls never
\* replaces a value, although several threads are between the two.
THEOREM SettingsKept == Spec => SettingsStay
    BY Initially, Stepping, StepKeepsSettings, PTL DEF Spec, SettingsStay
=============================================================================
