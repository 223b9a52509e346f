------------------------------ MODULE MCAudit ------------------------------
(***************************************************************************)
(* A catalog of two rules, of different severity, section and platforms, and *)
(* baseline files that name one more, of which most are refused.            *)
(***************************************************************************)
EXTENDS Audit

MCRule == {"SSH-001", "FILE-001"}
MCCatalog == <<"SSH-001", "FILE-001">>
MCDefaultSeverity == [r \in MCRule |-> IF r = "SSH-001" THEN 4 ELSE 2]
MCPlatforms ==
  [r \in MCRule |-> IF r = "SSH-001" THEN {"linux", "windows"} ELSE {"linux"}]
MCSectionOf == [r \in MCRule |-> IF r = "SSH-001" THEN "sshd" ELSE "files"]

MCRequests ==
  [command : {"audit"}, failOn : {0, 2, 5}, config : BOOLEAN]
    \cup [command : {"snapshot", "rules", "help", "invalid"},
          failOn : {2}, config : {FALSE}]

Plain == [decodes |-> TRUE, version |-> 1, lists |-> FALSE, rules |-> <<>>,
          exclude |-> <<>>, overrides |-> {}]
Lists(d, ids) == [d EXCEPT !.lists = TRUE, !.rules = ids]
Excludes(d, xs) == [d EXCEPT !.exclude = xs]
Without(r, reason) == [rule |-> r, reason |-> reason]
Ranks(d, ranks) == [d EXCEPT !.overrides = ranks]
Rank(r, n) == [rule |-> r, severity |-> n]

MCDocuments ==
  { Lists(Plain, <<"FILE-001">>),
    Excludes(Plain, <<Without("SSH-001", TRUE)>>),
    Ranks(Plain, {Rank("SSH-001", 1), Rank("FILE-001", 5)}),
    Excludes(Ranks(Lists(Plain, <<"SSH-001", "FILE-001">>), {Rank("FILE-001", 2)}),
             <<Without("FILE-001", TRUE)>>),
    Lists(Ranks(Plain, {Rank("FILE-001", 1)}), <<"SSH-001">>),
    [Plain EXCEPT !.decodes = FALSE], [Plain EXCEPT !.version = 2],
    Lists(Plain, <<>>), Lists(Plain, <<"FILE-002">>), Lists(Plain, <<"SSH-001", "SSH-001">>),
    Excludes(Plain, <<Without("FILE-002", TRUE)>>),
    Excludes(Plain, <<Without("SSH-001", FALSE)>>),
    Excludes(Plain, <<Without("SSH-001", TRUE), Without("SSH-001", TRUE)>>),
    Excludes(Lists(Plain, <<"SSH-001">>), <<Without("FILE-001", TRUE)>>),
    Ranks(Plain, {Rank("FILE-002", 3)}), Ranks(Plain, {Rank("FILE-001", 0)}) }

MCStatuses ==
  [s \in Section |->
     CASE s = "sshd" -> {"collected", "not_found", "permission_denied", "failed"}
       [] s = "files" -> {"collected", "failed"}
       [] OTHER -> {"collected"}]

MCVerdict == {"PASS", "FAIL", "SKIP", "ERROR", "panic"}
=============================================================================
