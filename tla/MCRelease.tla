------------------------------ MODULE MCRelease ------------------------------
(***************************************************************************)
(* For the tag "v1": manifests of version 1, in double and in single       *)
(* quotes, and of version 2, with the table of a dependency, which has the *)
(* other version, before or after that of the workspace; histories of one  *)
(* commit of each version, on either of which the tag may be.  For the     *)
(* groups: commits that break one leg or none, pushed to main when it has  *)
(* one commit or none.                                                     *)
(***************************************************************************)
EXTENDS Release

Dependency(v) == << <<"workspace.dependencies.vgi">>, <<"version", v, "double">> >>

Package(v, quotes) ==
    << <<"workspace.package">>, <<"rust-version", "2", "double">>, <<"version", v, quotes>> >>

Before(v, other, quotes) == Dependency(other) \o Package(v, quotes)
After(v, other, quotes) == Package(v, quotes) \o Dependency(other)

Quotes == {"double", "single"}

MCManifests ==
    UNION {{Before("1", "2", quotes), After("1", "2", quotes)} : quotes \in Quotes}
    \union {Before("2", "1", "double"), After("2", "1", "double")}

MCFaults == {{}, {"macos unix"}}

MCPushed == [manifest : {After("1", "2", "double")}, broken : MCFaults]

Sound(manifest) == [manifest |-> manifest, broken |-> {}]

MCHistories ==
    {<<>>, << Sound(After("1", "2", "double")) >>}
    \union {<<Sound(Before("1", "2", quotes)), Sound(Before("2", "1", "double"))>> :
               quotes \in Quotes}
    \union {<<Sound(After("1", "2", quotes)), Sound(After("2", "1", "double"))>> :
               quotes \in Quotes}
=============================================================================
