---------------------------- MODULE MCInspection ----------------------------
(***************************************************************************)
(* Three files in two approved folders.  File 1 is a skill, file 2 may be a *)
(* link to file 3, file 3 is an instructions file in a folder that may be   *)
(* unlistable or a mount.  Two files fit the count, two units the total.    *)
(***************************************************************************)
EXTENDS ContainedInspection, TLC

MCFiles == 1 .. 3
MCDirs == 1 .. 2
MCDirOf == (1 :> 1) @@ (2 :> 1) @@ (3 :> 2)
MCRoleOf == (1 :> "skills") @@ (2 :> "other") @@ (3 :> "instructions")
MCLinkTo == (1 :> 1) @@ (2 :> 3) @@ (3 :> 3)
Node(shape, size) == [shape |-> shape, size |-> size, body |-> "a", stamp |-> 0]
MCFirstNodes ==
  (1 :> {Node("file", 1), Node("file", 3), Node("hard", 1)}) @@
  (2 :> {Node("alias", 1), Node("file", 2)}) @@
  (3 :> {Node("file", 1)})
MCDirStates == (1 :> {"listable"}) @@ (2 :> {"listable", "unlistable", "mounted"})
MCReplacements == {"gone", "escape", "special", "file"}
MCSource == (1 :> "vault") @@ (2 :> "vault") @@ (3 :> "copy")
MCSourceClass == [vault |-> "vault-authored", copy |-> "working-copy"]
Fact(kind, name, config) == [kind |-> kind, name |-> name, config |-> config]
MCSays ==
  [p \in MCFiles \X {"a", "b", "torn"} |->
     CASE p[2] = "torn" -> {}
       [] p[1] = 1 /\ p[2] = "a" -> {Fact("skill", "Daily", "implemented"), Fact("automation", "nightly", "implemented"),
                                     Fact("provider", "crm", "declared")}
       [] p[1] = 1 /\ p[2] = "b" -> {Fact("skill", "Daily", "disabled"), Fact("release", "Nightly", "installed"),
                                     Fact("adapter", "tasks", "implemented")}
       [] p[1] = 2 /\ p[2] # "torn" -> {Fact("skill", "Daily", "implemented"), Fact("mcp-server", "crm", "declared")}
       [] OTHER -> {Fact("automation", "Nightly", "implemented")}]
MCSlug == [n \in {"Daily", "Nightly", "nightly", "crm", "dex-core", "local-integrations", "external-task-sync"} |->
             IF n = "Nightly" THEN "nightly" ELSE n]
MCLive == {{}, {"nightly"}}
=============================================================================
