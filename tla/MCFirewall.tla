----------------------------- MODULE MCFirewall -----------------------------
(***************************************************************************)
(* Three pids, of which two can be scanned, the machines that make the       *)
(* collectors differ, and every way the legacy tables can stand.            *)
(***************************************************************************)
EXTENDS Firewall

MCPid == 1..3

Root == [elevated |-> TRUE, nft |-> TRUE, legacy |-> LegacyFiles, conf |-> TRUE,
         ufw |-> Unreadable, visible |-> MCPid]
User == [Root EXCEPT !.elevated = FALSE, !.ufw = <<FALSE, TRUE>>]

MCMachines ==
  { Root, User,
    [Root EXCEPT !.legacy = {"v4"}, !.ufw = <<TRUE, FALSE>>],
    [Root EXCEPT !.legacy = {"v6"}, !.conf = FALSE],
    [Root EXCEPT !.nft = FALSE, !.conf = FALSE, !.ufw = <<TRUE>>],
    [User EXCEPT !.visible = {1}, !.ufw = <<>>] }

MCKernels ==
  { [nft |-> FALSE, v4 |-> "none", v6 |-> "none"],
    [nft |-> TRUE, v4 |-> "none", v6 |-> "none"],
    [nft |-> FALSE, v4 |-> "filtering", v6 |-> "none"],
    [nft |-> FALSE, v4 |-> "none", v6 |-> "filtering"],
    [nft |-> FALSE, v4 |-> "accepting", v6 |-> "none"] }

Daemon == [comm |-> "firewalld", root |-> TRUE]
Namesake == [comm |-> "firewalld", root |-> FALSE]
Other == [comm |-> "other", root |-> TRUE]

MCTables ==
  { [p \in MCPid |-> <<a, b, c>>[p]] :
      a \in {Namesake, Other}, b \in {None, Daemon, Other}, c \in {None, Daemon} }
=============================================================================
