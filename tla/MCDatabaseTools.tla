---------------------------- MODULE MCDatabaseTools ----------------------------
(***************************************************************************)
(* Instances of DatabaseTools.  The fields a tool does not read have one   *)
(* value, so that equal calls are not counted twice.                       *)
(***************************************************************************)
EXTENDS DatabaseTools

CONSTANTS h1, h2, a1, a2

Ask(tool, handles, scopes, newHandles, backups) ==
    [tool: {tool}, handle: handles, scope: scopes, newHandle: newHandles, backup: backups]

Restores == Ask("restore", {h1}, {NoAccount}, {h2}, {"account", "database", "none"})
                \cup Ask("restore", {h1}, {a2}, {h2}, {"account"})
Deletes  == Ask("delete", {h1}, {NoAccount, a1}, {h1}, {"none"})
Renames  == Ask("rename", {h1}, {NoAccount, a1}, {h2}, {"none"})
Creates  == Ask("create", {h1}, {a1}, {h2}, {"none"})
Operates == Ask("operate", {h1}, {NoAccount}, {h1}, {"none"})
Clones   == Ask("clone", {h1}, {NoAccount}, {h2}, {"none"})
Replicas == Ask("replicate", {h1}, {a1}, {h2}, {"none"})

AllRequests ==
    Restores \cup Deletes \cup Renames \cup Creates \cup Operates \cup Clones \cup Replicas
==============================================================================
