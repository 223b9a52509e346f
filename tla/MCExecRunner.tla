---------------------------- MODULE MCExecRunner ----------------------------
(***************************************************************************)
(* A program whose name may be a link to another below directories of root; *)
(* its own directories belong to root, to a user or to all.                 *)
(***************************************************************************)
EXTENDS ExecRunner

MCPath == {"/", "/usr", "/usr/nft", "/srv", "/srv/bin", "/srv/bin/nft"}
MCDir == [p \in MCPath |->
            CASE p = "/usr/nft" -> "/usr" [] p = "/srv/bin/nft" -> "/srv/bin"
              [] p = "/srv/bin" -> "/srv" [] OTHER -> "/"]
MCChain == [p \in MCPath |->
              CASE p = "/" -> {"/"} [] p \in {"/usr", "/srv"} -> {p, "/"}
                [] p = "/usr/nft" -> {p, "/usr", "/"}
                [] p = "/srv/bin" -> {p, "/srv", "/"}
                [] p = "/srv/bin/nft" -> {p, "/srv/bin", "/srv", "/"}]
MCPrograms == {"/srv/bin/nft"}

NodeOf(kind) == [kind |-> kind, to |-> "/", root |-> TRUE, shared |-> FALSE]
LinkTo(p) == [NodeOf("link") EXCEPT !.to = p]
OfUser(n) == [n EXCEPT !.root = FALSE]
SharedByAll(n) == [n EXCEPT !.shared = TRUE]

Sound == [p \in MCPath |-> NodeOf(IF p \in {"/usr/nft", "/srv/bin/nft"} THEN "file" ELSE "dir")]
MCHosts ==
  { Sound,
    [Sound EXCEPT !["/srv/bin"] = SharedByAll(@), !["/srv/bin/nft"] = LinkTo("/usr/nft")],
    [Sound EXCEPT !["/srv"] = SharedByAll(@)],
    [Sound EXCEPT !["/"] = SharedByAll(@)],
    [Sound EXCEPT !["/srv/bin/nft"] = OfUser(@)],
    [Sound EXCEPT !["/usr/nft"] = NodeOf("other"), !["/srv/bin/nft"] = LinkTo("/usr/nft")] }

MCForged ==
  {NodeOf("file"), OfUser(NodeOf("file")), LinkTo("/usr/nft"), LinkTo("/usr")}

MCLimit == [s \in Stream |-> IF s = "stdout" THEN 2 ELSE 0]
MCMaxWritten == [s \in Stream |-> IF s = "stdout" THEN 3 ELSE 1]
=============================================================================
