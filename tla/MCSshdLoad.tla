---------------------------- MODULE MCSshdLoad ----------------------------
(***************************************************************************)
(* Small instances of SshdLoad with SshdRules: two candidate main files, two *)
(* drop-ins that may include each other or themselves, and a disk on which   *)
(* each of them can be missing, unreadable or broken.                       *)
(***************************************************************************)
EXTENDS SshdReference

MCFile == {"main", "vendor", "a", "b"}
MCLocations == <<"main", "vendor">>
MCKeyword == {"permitrootlogin", "usepam", "kbdinteractiveauthentication",
              "maxauthtries", "x11forwarding", "ciphers", "macs"}
MCArg == {"yes", "no", "YES", "prohibit-password", "3", "6", "+*-cbc,!3des-cbc",
          "+*-cbc", "+*-cbc,!*-cbc", "-3des-cbc", "aes128-ctr", "hmac-md5"}
MCWeakCiphers == {"3des-cbc", "aes128-cbc"}
MCWeakMACs == {"hmac-md5"}

MCWord == (MCArg \ {"YES"})
MCLower == [a \in MCArg |-> IF a = "YES" THEN "yes" ELSE a]
MCAtoi == [a \in MCArg |-> CASE a = "3" -> 3 [] a = "6" -> 6
                             [] OTHER -> NotANumber]
Plain(ws) == [negated |-> FALSE, matches |-> ws]
But(ws) == [negated |-> TRUE, matches |-> ws]
MCAlgorithms ==
  [a \in MCArg |->
     CASE a = "+*-cbc" -> [sign |-> "+", items |-> {Plain(MCWeakCiphers)}]
       [] a = "+*-cbc,!3des-cbc" ->
            [sign |-> "+", items |-> {Plain(MCWeakCiphers), But({"3des-cbc"})}]
       [] a = "+*-cbc,!*-cbc" ->
            [sign |-> "+", items |-> {Plain(MCWeakCiphers), But(MCWeakCiphers)}]
       [] a = "hmac-md5" -> [sign |-> "", items |-> {Plain(MCWeakMACs)}]
       [] a = "-3des-cbc" -> [sign |-> "-", items |-> {Plain({"3des-cbc"})}]
       [] OTHER -> [sign |-> "", items |-> {Plain({})}]]
MCCriteria == {"user u", "host h"}
MCCriteriaOrEmpty == MCCriteria \cup {""}

MCPattern == {"conf.d/*", "b.conf", "*.d/*", "~/x", "[", "none/*"}
MCTilde == {"~/x"}
MCMalformed == {"["}
MCWildDir == {"*.d/*"}

Directs(k, a) == [kind |-> "directive", keyword |-> k, args |-> a]
Sets(a) == Directs("permitrootlogin", a)
OnMatch(m) == [kind |-> "match", criteria |-> m]
Includes(ps) == [kind |-> "include", patterns |-> ps]
Other(k) == [kind |-> k]

MainContents ==
  { <<Includes(<<"conf.d/*">>), Sets("YES")>>,
    <<OnMatch("user u"), Includes(<<"conf.d/*", "b.conf">>), Sets("YES")>>,
    <<Sets("no"), Other("blank"), OnMatch("user u"), Sets("YES"),
      OnMatch("host h"), Includes(<<"b.conf">>)>>,
    <<Other("unknown"), Includes(<<"none/*", "conf.d/*">>)>>,
    <<Includes(<<"*.d/*">>), Sets("YES")>>,
    <<Includes(<<"b.conf", "~/x">>)>>,
    <<Includes(<<"b.conf", "[">>)>>,
    <<Sets("YES"), Other("bad")>>,
    <<>> }

DropInContents ==
  { <<Sets("no")>>,
    <<OnMatch("host h"), Sets("no")>>,
    <<Sets("no"), OnMatch("user u"), Includes(<<"b.conf">>), Sets("YES")>>,
    <<Includes(<<"conf.d/*">>)>>,
    <<Other("unknown"), Sets("YES"), Sets("no")>> }

MCContents ==
  { [f \in MCFile |-> CASE f = "main" -> m [] f = "vendor" -> <<Sets("no")>>
                         [] f = "a" -> a [] f = "b" -> b] :
    m \in MainContents, a \in DropInContents, b \in DropInContents }

(* What the other rules read: PAM, numbers, algorithms, values set twice.   *)
Kbd(a) == Directs("kbdinteractiveauthentication", a)
Tries(a) == Directs("maxauthtries", a)
X11(a) == Directs("x11forwarding", a)
RuleMains ==
  { <<Directs("usepam", "YES"), Kbd("no"), OnMatch("user u"), Includes(<<"b.conf">>)>>,
    <<Directs("usepam", "no"), OnMatch("host h"), Includes(<<"conf.d/*">>)>>,
    <<Includes(<<"b.conf">>), Directs("usepam", "yes"), Kbd("no")>>,
    <<OnMatch("user u"), Includes(<<"b.conf">>), Tries("3"), Tries("6")>>,
    <<Tries("3"), OnMatch("user u"), Tries("3"), OnMatch("host h"), Tries("6")>>,
    <<Tries("3"), Tries("6"), OnMatch("host h"), Tries("no")>>,
    <<Tries("3"), Tries("6")>>,
    <<OnMatch("user u"), X11("no"), OnMatch("host h"), Includes(<<"b.conf">>)>>,
    <<OnMatch("user u"), X11("no"), X11("yes")>>,
    <<Sets("prohibit-password"), OnMatch("user u"), Sets("no")>> }
  \cup { <<Directs("ciphers", a), Directs("ciphers", "aes128-ctr")>> :
          a \in {"+*-cbc", "+*-cbc,!3des-cbc", "+*-cbc,!*-cbc", "-3des-cbc",
                "aes128-ctr", "hmac-md5"} }
  \cup { <<Directs("macs", a)>> : a \in {"+*-cbc", "hmac-md5"} }
RuleDropIns ==
  { <<Kbd("yes")>>, <<X11("yes"), OnMatch("user u"), X11("no")>>, <<Tries("3")>> }
RuleContents ==
  { [f \in MCFile |-> CASE f = "main" -> m [] f = "vendor" -> <<>>
                         [] f = "a" -> <<>> [] f = "b" -> b] :
    m \in RuleMains, b \in RuleDropIns }
AllContents == MCContents \cup RuleContents

EmptyMatchContents ==
  { [c EXCEPT !["main"] = <<OnMatch(""), Sets("YES")>>] : c \in MCContents }

(* The files of each pattern, in lexical order, on a disk where all exist.  *)
FilesOf ==
  [p \in MCPattern |-> CASE p = "conf.d/*" -> <<"a", "b">>
                         [] p = "b.conf" -> <<"b">>
                         [] p = "*.d/*" -> <<"a", "b">>
                         [] OTHER -> <<>>]

(* A disk on which stat and read answer as given, a name is in its           *)
(* directory unless it is in `gone`, and every directory answers a probe     *)
(* with `probe`.  Glob sees nothing in a directory it cannot read.          *)
DiskWith(stat, read, gone, probe) ==
  LET here == [p \in MCPattern |->
                 SelectSeq(FilesOf[p], LAMBDA f : f \notin gone)]
  IN  [stat |-> stat, read |-> read,
       probe |-> [p \in MCPattern |->
                    IF p = "none/*" THEN "notexist"
                    ELSE IF p \in {"conf.d/*", "*.d/*"} THEN probe ELSE "ok"],
       there |-> here,
       listing |-> [p \in MCPattern |->
                      IF p \in {"conf.d/*", "*.d/*"} /\ probe # "ok"
                      THEN <<>> ELSE here[p]]]

AllOk == [f \in MCFile |-> "ok"]

PlainDisks ==
  { DiskWith(AllOk, AllOk, {}, "ok"),
    DiskWith([AllOk EXCEPT !["main"] = "notexist"], AllOk, {}, "ok"),
    DiskWith([AllOk EXCEPT !["main"] = "permission"], AllOk, {}, "ok"),
    DiskWith([AllOk EXCEPT !["main"] = "notexist", !["vendor"] = "notexist"],
             AllOk, {}, "ok"),
    DiskWith(AllOk, [AllOk EXCEPT !["main"] = "permission"], {}, "ok"),
    DiskWith(AllOk, [AllOk EXCEPT !["a"] = "permission"], {}, "ok"),
    DiskWith(AllOk, [AllOk EXCEPT !["b"] = "notexist"], {}, "ok"),
    DiskWith(AllOk, AllOk, {"a"}, "ok"),
    DiskWith(AllOk, AllOk, {}, "permission") }

MCDisks == PlainDisks \cup { DiskWith(AllOk, AllOk, {}, "io") }
-----------------------------------------------------------------------------
(* A directive of a Match block is never taken for a global one.            *)
MatchBlocksAreLabelled ==
  \A i \in 1..Len(cfg.directives) :
    LET d == cfg.directives[i]
    IN  ~BeforeAnyMatch(d.file, d.line) => d.match # Global
=============================================================================
