--------------------------- MODULE Firewall_proofs ---------------------------
(***************************************************************************)
(* What holds of the verdict on the firewall for every host, every number   *)
(* of processes and every number of changes while it is being looked at.    *)
(***************************************************************************)
EXTENDS Firewall, TLAPS

(* What the search of legacy tables has seen so far is what the kernel has   *)
(* held: when its rules did not change, or when it never held a legacy      *)
(* table, they filter nothing unless a table was listed.                    *)
Still == kernels = {kernel}
NoLegacy == \A k \in kernels : ~LegacyLoaded(k)
SeenOpen == \E k \in kernels : ~k.nft
SeenLegacy == \E k \in kernels : LegacyLoaded(k)
KernelOK ==
  /\ pc \in {"v4", "v6"} => machine.elevated /\ SeenOpen
  /\ pc = "v6" => "v4" \in machine.legacy
  /\ pc = "v6" /\ Still /\ ~names => kernel.v4 = "none"
  /\ pc = "v6" /\ names => SeenLegacy

(* What each provider reported, and from which moments it follows.          *)
NftOK(p) ==
  /\ p.state = "enabled" => p.verified /\ (\E k \in kernels : k.nft)
  /\ p.state = "disabled" =>
       /\ p.authoritative /\ machine.elevated /\ SeenOpen
       /\ machine.legacy = LegacyFiles
       /\ Still => ~Filtered(kernel)
  /\ p.state = "unknown" /\ p.verified => machine.legacy # LegacyFiles \/ SeenLegacy
FirewalldOK(p) ==
  /\ ~p.authoritative
  /\ p.state = "enabled" => p.verified /\ (changes = 0 => ran # {})
UfwOK(p) == ~p.verified /\ ~p.authoritative
ProviderOK(p) ==
  /\ p.name = "nft" => NftOK(p)
  /\ p.name = "firewalld" => FirewalldOK(p)
  /\ p.name = "ufw" => UfwOK(p)
ProvidersOK == \A p \in providers : ProviderOK(p)

(* The providers report once each, in this order.                           *)
OrderOK ==
  /\ pc \in {"nft", "v4", "v6"} => providers = {}
  /\ pc \in {"list", "comm", "status", "conf"} =>
       \A p \in providers : p.name = "nft"
  /\ pc = "ufw" => \A p \in providers : p.name # "ufw"

(* A firewalld that has run from the start and is visible is still on the    *)
(* list, until it is found.                                                 *)
Looked == listing \cup (IF pc = "status" THEN {candidate} ELSE {})
ScanOK ==
  /\ \A p \in steady : IsFirewalld(procs[p])
  /\ \A p \in Pid : IsFirewalld(procs[p]) => p \in ran
  /\ pc = "status" /\ changes = 0 => procs[candidate].comm = "firewalld"
  /\ pc \in {"comm", "status"} => steady \cap machine.visible \subseteq Looked
  /\ pc = "conf" => steady \cap machine.visible = {}
  /\ pc \in {"ufw", "judge", "done"} =>
       Says("firewalld", "enabled") \/ warned \/ steady \cap machine.visible = {}

VerdictOK == pc = "done" => verdict = checkFirewall(providers)

Invariant ==
  TypeOK /\ KernelOK /\ ProvidersOK /\ OrderOK /\ ScanOK /\ VerdictOK
-----------------------------------------------------------------------------
LEMMA InitInvariant == Init => Invariant
<1> SUFFICES ASSUME Init PROVE Invariant
  OBVIOUS
<1>1. procs \in ProcessTable /\ kernel \in Kernels /\ machine \in Machines
  BY InputsAssumption DEF Init
<1>2. TypeOK
  <2>1. changes \in 0..MaxChanges
    BY BoundsAssumption DEF Init
  <2>2. verdict = Pending /\ pc # "done"
    BY DEF Init
  <2>3. steady \subseteq Pid /\ ran \subseteq Pid
    BY DEF Init
  <2> QED
    BY <1>1, <2>1, <2>2, <2>3 DEF Init, TypeOK
<1>3. KernelOK /\ ProvidersOK /\ OrderOK /\ VerdictOK
  BY DEF Init, KernelOK, ProvidersOK, OrderOK, VerdictOK
<1>4. ScanOK
  BY DEF Init, ScanOK
<1> QED
  BY <1>2, <1>3, <1>4 DEF Invariant

(* A new provider whose report is sound leaves all reports sound.           *)
LEMMA Reported ==
  ASSUME TypeOK, ProvidersOK, NEW p \in ProviderType, ProviderOK(p),
         \A q \in providers : q.name # p.name,
         Report(p), UNCHANGED <<host, history>>
  PROVE  /\ providers' \subseteq ProviderType
         /\ \A q, r \in providers' : q.name = r.name => q = r
         /\ ProvidersOK'
<1>1. providers' = providers \cup {p}
  BY DEF Report
<1>2. providers' \subseteq ProviderType
  BY <1>1 DEF TypeOK
<1>3. \A q, r \in providers' : q.name = r.name => q = r
  BY <1>1 DEF TypeOK
<1>4. ASSUME NEW q, ProviderOK(q) PROVE ProviderOK(q)'
  BY <1>4 DEF ProviderOK, NftOK, FirewalldOK, UfwOK, Still, SeenOpen, SeenLegacy,
              host, history
<1>5. ProvidersOK'
  BY <1>1, <1>4 DEF ProvidersOK
<1> QED
  BY <1>2, <1>3, <1>5

LEMMA NftUnknownKeeps == Invariant /\ NftUnknown => Invariant'
<1> SUFFICES ASSUME Invariant, NftUnknown PROVE Invariant'
  OBVIOUS
<1> DEFINE p == Provider("nft", "unknown", FALSE, FALSE)
<1>1. /\ p \in ProviderType
      /\ p.name = "nft" /\ p.state = "unknown"
      /\ p.verified = FALSE /\ p.authoritative = FALSE
  BY DEF Provider, ProviderType
<1>2. Report(p) /\ UNCHANGED <<host, history>>
  BY DEF NftUnknown
<1> HIDE DEF p
<1>3. ProviderOK(p)
  BY <1>1 DEF ProviderOK, NftOK
<1>4. \A q \in providers : q.name # p.name
  BY <1>1 DEF NftUnknown, At, Invariant, OrderOK
<1>5. /\ providers' \subseteq ProviderType
      /\ \A q, r \in providers' : q.name = r.name => q = r
      /\ ProvidersOK'
  BY <1>1, <1>2, <1>3, <1>4, Reported DEF Invariant
<1>6. TypeOK'
  BY <1>5 DEF NftUnknown, At, Invariant, TypeOK, host, history, scan, Pending
<1>7. KernelOK'
  BY DEF NftUnknown, At, KernelOK
<1>8. OrderOK'
  BY <1>1, <1>2 DEF NftUnknown, At, Invariant, OrderOK, Report
<1>9. ScanOK'
  BY <1>1, <1>2 DEF NftUnknown, At, Invariant, ScanOK, Says, Report, host, history, scan
<1> QED
  BY <1>5, <1>6, <1>7, <1>8, <1>9 DEF Invariant, VerdictOK, NftUnknown, At

LEMMA NftFiltersKeeps == Invariant /\ NftFilters => Invariant'
<1> SUFFICES ASSUME Invariant, NftFilters PROVE Invariant'
  OBVIOUS
<1> DEFINE p == Provider("nft", "enabled", TRUE, TRUE)
<1>1. /\ p \in ProviderType
      /\ p.name = "nft" /\ p.state = "enabled"
      /\ p.verified = TRUE /\ p.authoritative = TRUE
  BY DEF Provider, ProviderType
<1>2. Report(p) /\ UNCHANGED <<host, history>>
  BY DEF NftFilters
<1> HIDE DEF p
<1>3. ProviderOK(p)
  BY <1>1 DEF ProviderOK, NftOK, NftFilters, Invariant, TypeOK
<1>4. \A q \in providers : q.name # p.name
  BY <1>1 DEF NftFilters, At, Invariant, OrderOK
<1>5. /\ providers' \subseteq ProviderType
      /\ \A q, r \in providers' : q.name = r.name => q = r
      /\ ProvidersOK'
  BY <1>1, <1>2, <1>3, <1>4, Reported DEF Invariant
<1>6. TypeOK'
  BY <1>5 DEF NftFilters, At, Invariant, TypeOK, host, history, scan, Pending
<1>7. KernelOK'
  BY DEF NftFilters, At, KernelOK
<1>8. OrderOK'
  BY <1>1, <1>2 DEF NftFilters, At, Invariant, OrderOK, Report
<1>9. ScanOK'
  BY <1>1, <1>2 DEF NftFilters, At, Invariant, ScanOK, Says, Report, host, history, scan
<1> QED
  BY <1>5, <1>6, <1>7, <1>8, <1>9 DEF Invariant, VerdictOK, NftFilters, At

LEMMA NftOpenKeeps == Invariant /\ NftOpen => Invariant'
<1> SUFFICES ASSUME Invariant, NftOpen PROVE Invariant'
  OBVIOUS
<1>1. TypeOK'
  BY DEF NftOpen, At, Invariant, TypeOK, host, history, scan
<1>2. KernelOK'
  BY DEF NftOpen, At, Invariant, TypeOK, KernelOK, SeenOpen, NftRuns, host, history
<1>3. ProvidersOK'
  BY DEF NftOpen, Invariant, ProvidersOK, ProviderOK, NftOK, FirewalldOK, UfwOK,
         Still, SeenOpen, SeenLegacy, host, history
<1>4. OrderOK'
  BY DEF NftOpen, At, Invariant, OrderOK
<1>5. ScanOK'
  BY DEF NftOpen, At, Invariant, TypeOK, ScanOK, Says, host, history, scan
<1> QED
  BY <1>1, <1>2, <1>3, <1>4, <1>5 DEF Invariant, VerdictOK, NftOpen, At

LEMMA LegacyUnknownKeeps == Invariant /\ LegacyUnknown => Invariant'
<1> SUFFICES ASSUME Invariant, LegacyUnknown PROVE Invariant'
  OBVIOUS
<1> DEFINE p == Provider("nft", "unknown", TRUE, FALSE)
<1>1. /\ p \in ProviderType
      /\ p.name = "nft" /\ p.state = "unknown"
      /\ p.verified = TRUE /\ p.authoritative = FALSE
  BY DEF Provider, ProviderType
<1>2. Report(p) /\ UNCHANGED <<host, history>>
  BY DEF LegacyUnknown
<1> HIDE DEF p
<1>3. ProviderOK(p)
  BY <1>1 DEF ProviderOK, NftOK, LegacyUnknown, LegacyFiles
<1>4. \A q \in providers : q.name # p.name
  BY <1>1 DEF LegacyUnknown, LegacyFiles, Invariant, OrderOK
<1>5. /\ providers' \subseteq ProviderType
      /\ \A q, r \in providers' : q.name = r.name => q = r
      /\ ProvidersOK'
  BY <1>1, <1>2, <1>3, <1>4, Reported DEF Invariant
<1>6. TypeOK'
  BY <1>5 DEF LegacyUnknown, LegacyFiles, Invariant, TypeOK, host, history, scan, Pending
<1>7. KernelOK'
  BY DEF LegacyUnknown, KernelOK
<1>8. OrderOK'
  BY <1>1, <1>2 DEF LegacyUnknown, LegacyFiles, Invariant, OrderOK, Report
<1>9. ScanOK'
  BY <1>1, <1>2 DEF LegacyUnknown, LegacyFiles, Invariant, ScanOK, Says, Report, host, history, scan
<1> QED
  BY <1>5, <1>6, <1>7, <1>8, <1>9 DEF Invariant, VerdictOK, LegacyUnknown

LEMMA ReadLegacyV4Keeps == Invariant /\ ReadLegacyV4 => Invariant'
<1> SUFFICES ASSUME Invariant, ReadLegacyV4 PROVE Invariant'
  OBVIOUS
<1>1. TypeOK'
  BY DEF ReadLegacyV4, At, Invariant, TypeOK, host, history, scan
<1>2. KernelOK'
  BY DEF ReadLegacyV4, At, Invariant, TypeOK, KernelOK, Still, SeenOpen, SeenLegacy, LegacyLoaded, host, history
<1>3. ProvidersOK'
  BY DEF ReadLegacyV4, Invariant, ProvidersOK, ProviderOK, NftOK, FirewalldOK, UfwOK,
         Still, SeenOpen, SeenLegacy, host, history
<1>4. OrderOK'
  BY DEF ReadLegacyV4, At, Invariant, OrderOK
<1>5. ScanOK'
  BY DEF ReadLegacyV4, At, Invariant, TypeOK, ScanOK, Says, host, history, scan
<1> QED
  BY <1>1, <1>2, <1>3, <1>4, <1>5 DEF Invariant, VerdictOK, ReadLegacyV4, At

LEMMA ReadLegacyV6Keeps == Invariant /\ ReadLegacyV6 => Invariant'
<1> SUFFICES ASSUME Invariant, ReadLegacyV6 PROVE Invariant'
  OBVIOUS
<1> DEFINE p == IF names' THEN Provider("nft", "unknown", TRUE, FALSE)
                          ELSE Provider("nft", "disabled", TRUE, TRUE)
<1>1. /\ p \in ProviderType /\ p.name = "nft" /\ p.verified = TRUE
      /\ names' => p.state = "unknown"
      /\ ~names' => p.state = "disabled" /\ p.authoritative = TRUE
  <2>1. LET u == Provider("nft", "unknown", TRUE, FALSE)
        IN  u \in ProviderType /\ u.name = "nft" /\ u.verified = TRUE
            /\ u.state = "unknown"
    BY DEF Provider, ProviderType
  <2>2. LET d == Provider("nft", "disabled", TRUE, TRUE)
        IN  d \in ProviderType /\ d.name = "nft" /\ d.verified = TRUE
            /\ d.state = "disabled" /\ d.authoritative = TRUE
    BY DEF Provider, ProviderType
  <2>3. CASE names'
    BY <2>1, <2>3
  <2>4. CASE ~names'
    BY <2>2, <2>4
  <2> QED
    BY <2>3, <2>4
<1>2. Report(p) /\ UNCHANGED <<host, history>>
  BY DEF ReadLegacyV6
<1> HIDE DEF p
<1>3. ProviderOK(p)
  <2>1. CASE names'
    <3>1. SeenLegacy
      BY <2>1 DEF ReadLegacyV6, At, Invariant, TypeOK, KernelOK, SeenLegacy,
                  LegacyLoaded
    <3> QED
      BY <1>1, <2>1, <3>1 DEF ProviderOK, NftOK
  <2>2. CASE ~names'
    <3>1. machine.elevated /\ SeenOpen /\ machine.legacy = LegacyFiles
      <4>1. machine.legacy \subseteq LegacyFiles
        BY InputsAssumption DEF Invariant, TypeOK, Machine
      <4> QED
        BY <4>1 DEF ReadLegacyV6, At, Invariant, KernelOK, LegacyFiles
    <3>2. kernel.v6 = "none" /\ (Still => kernel.v4 = "none")
      BY <2>2 DEF ReadLegacyV6, At, Invariant, KernelOK
    <3>3. Still => ~Filtered(kernel)
      BY <3>1, <3>2 DEF Still, SeenOpen, Filtered
    <3> QED
      BY <1>1, <2>2, <3>1, <3>3 DEF ProviderOK, NftOK
  <2> QED
    BY <2>1, <2>2
<1>4. \A q \in providers : q.name # p.name
  BY <1>1 DEF ReadLegacyV6, At, Invariant, OrderOK
<1>5. /\ providers' \subseteq ProviderType
      /\ \A q, r \in providers' : q.name = r.name => q = r
      /\ ProvidersOK'
  BY <1>1, <1>2, <1>3, <1>4, Reported DEF Invariant
<1>6. TypeOK'
  BY <1>5 DEF ReadLegacyV6, At, Invariant, TypeOK, host, history, scan, Pending
<1>7. KernelOK'
  BY DEF ReadLegacyV6, At, KernelOK
<1>8. OrderOK'
  BY <1>1, <1>2 DEF ReadLegacyV6, At, Invariant, OrderOK, Report
<1>9. ScanOK'
  BY <1>1, <1>2 DEF ReadLegacyV6, At, Invariant, ScanOK, Says, Report, host, history, scan
<1> QED
  BY <1>5, <1>6, <1>7, <1>8, <1>9 DEF Invariant, VerdictOK, ReadLegacyV6, At

LEMMA ListFailsKeeps == Invariant /\ ListFails => Invariant'
<1> SUFFICES ASSUME Invariant, ListFails PROVE Invariant'
  OBVIOUS
<1>1. TypeOK'
  BY DEF ListFails, At, Invariant, TypeOK, host, history, scan
<1>2. KernelOK'
  BY DEF ListFails, At, Invariant, TypeOK, KernelOK, host, history
<1>3. ProvidersOK'
  BY DEF ListFails, Invariant, ProvidersOK, ProviderOK, NftOK, FirewalldOK, UfwOK,
         Still, SeenOpen, SeenLegacy, host, history
<1>4. OrderOK'
  BY DEF ListFails, At, Invariant, OrderOK
<1>5. ScanOK'
  BY DEF ListFails, At, Invariant, TypeOK, ScanOK, Says, host, history, scan
<1> QED
  BY <1>1, <1>2, <1>3, <1>4, <1>5 DEF Invariant, VerdictOK, ListFails, At

LEMMA ListKeeps == Invariant /\ List => Invariant'
<1> SUFFICES ASSUME Invariant, List PROVE Invariant'
  OBVIOUS
<1>1. TypeOK'
  <2>1. Listed \subseteq Pid
    BY InputsAssumption DEF Invariant, TypeOK, Listed, Machine
  <2> QED
    BY <2>1 DEF List, At, Invariant, TypeOK, host, history, scan
<1>2. KernelOK'
  BY DEF List, At, Invariant, TypeOK, KernelOK, host, history
<1>3. ProvidersOK'
  BY DEF List, Invariant, ProvidersOK, ProviderOK, NftOK, FirewalldOK, UfwOK,
         Still, SeenOpen, SeenLegacy, host, history
<1>4. OrderOK'
  BY DEF List, At, Invariant, OrderOK
<1>5. ScanOK'
  BY DEF List, At, Invariant, TypeOK, ScanOK, Looked, Listed, IsFirewalld, None, Says, host, history, scan
<1> QED
  BY <1>1, <1>2, <1>3, <1>4, <1>5 DEF Invariant, VerdictOK, List, At

LEMMA ReadCommKeeps == Invariant /\ ReadComm => Invariant'
<1> SUFFICES ASSUME Invariant, ReadComm PROVE Invariant'
  OBVIOUS
<1>1. TypeOK'
  <2>1. PICK p \in listing : listing' = listing \ {p} /\ candidate' = p
    BY DEF ReadComm
  <2>2. candidate' \in Pid /\ candidate' # 0
    BY <2>1, BoundsAssumption DEF Invariant, TypeOK
  <2> QED
    BY <2>1, <2>2 DEF ReadComm, Invariant, TypeOK, host, history
<1>2. KernelOK'
  BY DEF ReadComm, At, Invariant, TypeOK, KernelOK, host, history
<1>3. ProvidersOK'
  BY DEF ReadComm, Invariant, ProvidersOK, ProviderOK, NftOK, FirewalldOK, UfwOK,
         Still, SeenOpen, SeenLegacy, host, history
<1>4. OrderOK'
  BY DEF ReadComm, At, Invariant, OrderOK
<1>5. ScanOK'
  BY DEF ReadComm, At, Invariant, TypeOK, ScanOK, Looked, IsFirewalld, Says, host, history, scan
<1> QED
  BY <1>1, <1>2, <1>3, <1>4, <1>5 DEF Invariant, VerdictOK, ReadComm, At

LEMMA StatusIsRootKeeps == Invariant /\ StatusIsRoot => Invariant'
<1> SUFFICES ASSUME Invariant, StatusIsRoot PROVE Invariant'
  OBVIOUS
<1> DEFINE p == Provider("firewalld", "enabled", TRUE, FALSE)
<1>1. /\ p \in ProviderType
      /\ p.name = "firewalld" /\ p.state = "enabled"
      /\ p.verified = TRUE /\ p.authoritative = FALSE
  BY DEF Provider, ProviderType
<1>2. Report(p) /\ UNCHANGED <<host, history>>
  BY DEF StatusIsRoot
<1> HIDE DEF p
<1>3. ProviderOK(p)
  BY <1>1 DEF ProviderOK, FirewalldOK, StatusIsRoot, At, Invariant, TypeOK, ScanOK, IsFirewalld
<1>4. \A q \in providers : q.name # p.name
  BY <1>1 DEF StatusIsRoot, At, Invariant, OrderOK
<1>5. /\ providers' \subseteq ProviderType
      /\ \A q, r \in providers' : q.name = r.name => q = r
      /\ ProvidersOK'
  BY <1>1, <1>2, <1>3, <1>4, Reported DEF Invariant
<1>6. TypeOK'
  BY <1>5 DEF StatusIsRoot, At, Invariant, TypeOK, host, history, scan, Pending
<1>7. KernelOK'
  BY DEF StatusIsRoot, At, KernelOK
<1>8. OrderOK'
  BY <1>1, <1>2 DEF StatusIsRoot, At, Invariant, OrderOK, Report
<1>9. ScanOK'
  BY <1>1, <1>2 DEF StatusIsRoot, At, Invariant, ScanOK, Says, Report, host, history, scan
<1> QED
  BY <1>5, <1>6, <1>7, <1>8, <1>9 DEF Invariant, VerdictOK, StatusIsRoot, At

LEMMA StatusIsNotRootKeeps == Invariant /\ StatusIsNotRoot => Invariant'
<1> SUFFICES ASSUME Invariant, StatusIsNotRoot PROVE Invariant'
  OBVIOUS
<1>1. TypeOK'
  BY DEF StatusIsNotRoot, At, Invariant, TypeOK, host, history, scan
<1>2. KernelOK'
  BY DEF StatusIsNotRoot, At, Invariant, TypeOK, KernelOK, host, history
<1>3. ProvidersOK'
  BY DEF StatusIsNotRoot, Invariant, ProvidersOK, ProviderOK, NftOK, FirewalldOK, UfwOK,
         Still, SeenOpen, SeenLegacy, host, history
<1>4. OrderOK'
  BY DEF StatusIsNotRoot, At, Invariant, OrderOK
<1>5. ScanOK'
  BY DEF StatusIsNotRoot, At, Invariant, TypeOK, ScanOK, Looked, IsFirewalld, Says, host, history, scan
<1> QED
  BY <1>1, <1>2, <1>3, <1>4, <1>5 DEF Invariant, VerdictOK, StatusIsNotRoot, At

LEMMA NotFoundKeeps == Invariant /\ NotFound => Invariant'
<1> SUFFICES ASSUME Invariant, NotFound PROVE Invariant'
  OBVIOUS
<1>1. TypeOK'
  BY DEF NotFound, At, Invariant, TypeOK, host, history, scan
<1>2. KernelOK'
  BY DEF NotFound, At, Invariant, TypeOK, KernelOK, host, history
<1>3. ProvidersOK'
  BY DEF NotFound, Invariant, ProvidersOK, ProviderOK, NftOK, FirewalldOK, UfwOK,
         Still, SeenOpen, SeenLegacy, host, history
<1>4. OrderOK'
  BY DEF NotFound, At, Invariant, OrderOK
<1>5. ScanOK'
  BY DEF NotFound, At, Invariant, TypeOK, ScanOK, Looked, Says, host, history, scan
<1> QED
  BY <1>1, <1>2, <1>3, <1>4, <1>5 DEF Invariant, VerdictOK, NotFound, At

LEMMA KernelChangesKeeps == Invariant /\ KernelChanges => Invariant'
<1> SUFFICES ASSUME Invariant, KernelChanges PROVE Invariant'
  OBVIOUS
<1>1. TypeOK'
  <2>1. changes' \in 0..MaxChanges
    BY BoundsAssumption DEF KernelChanges, Invariant, TypeOK
  <2> QED
    BY <2>1 DEF KernelChanges, Invariant, TypeOK, scan
<1>2. KernelOK'
  BY DEF KernelChanges, At, Invariant, TypeOK, KernelOK, Still, SeenOpen, SeenLegacy, host, history
<1>3. ProvidersOK'
  <2>1. /\ kernels \subseteq kernels' /\ kernel \in kernels
        /\ UNCHANGED <<machine, providers, ran>>
    BY DEF KernelChanges, Invariant, TypeOK
  <2>2. Still' => Still /\ kernel' = kernel
    BY <2>1 DEF Still, Invariant, TypeOK
  <2>3. (SeenOpen => SeenOpen') /\ (SeenLegacy => SeenLegacy')
    BY <2>1 DEF SeenOpen, SeenLegacy
  <2>4. ASSUME NEW p \in providers PROVE ProviderOK(p)'
    <3>1. ProviderOK(p)
      BY DEF Invariant, ProvidersOK
    <3>2. NftOK(p) => NftOK(p)'
      BY <2>1, <2>2, <2>3 DEF NftOK
    <3>3. FirewalldOK(p) => FirewalldOK(p)'
      <4>1. changes' # 0
        BY BoundsAssumption DEF KernelChanges, Invariant, TypeOK
      <4> QED
        BY <4>1 DEF FirewalldOK
    <3> QED
      BY <3>1, <3>2, <3>3 DEF ProviderOK, UfwOK
  <2> QED
    BY <2>1, <2>4 DEF ProvidersOK
<1>4. OrderOK'
  BY DEF KernelChanges, At, Invariant, OrderOK
<1>5. ScanOK'
  <2>1. changes' # 0
    BY BoundsAssumption DEF KernelChanges, Invariant, TypeOK
  <2> QED
    BY <2>1 DEF KernelChanges, Invariant, ScanOK, Looked, Says, scan
<1> QED
  BY <1>1, <1>2, <1>3, <1>4, <1>5 DEF Invariant, VerdictOK, KernelChanges, At

LEMMA StatConfKeeps == Invariant /\ StatConf => Invariant'
<1> SUFFICES ASSUME Invariant, StatConf PROVE Invariant'
  OBVIOUS
<1> DEFINE p == IF machine.elevated
                THEN Provider("firewalld", "disabled", TRUE, FALSE)
                ELSE Provider("firewalld", "unknown", FALSE, FALSE)
<1>1. /\ p \in ProviderType /\ p.name = "firewalld"
      /\ p.authoritative = FALSE /\ p.state # "enabled"
  <2>1. LET d == Provider("firewalld", "disabled", TRUE, FALSE)
        IN  d \in ProviderType /\ d.name = "firewalld"
            /\ d.authoritative = FALSE /\ d.state = "disabled"
    BY DEF Provider, ProviderType
  <2>2. LET u == Provider("firewalld", "unknown", FALSE, FALSE)
        IN  u \in ProviderType /\ u.name = "firewalld"
            /\ u.authoritative = FALSE /\ u.state = "unknown"
    BY DEF Provider, ProviderType
  <2> QED
    BY <2>1, <2>2
<1>2. (machine.conf /\ Report(p)) \/ UNCHANGED providers
  BY DEF StatConf
<1>3. UNCHANGED <<host, history>>
  BY DEF StatConf
<1> HIDE DEF p
<1>4. ProviderOK(p) /\ \A q \in providers : q.name # p.name
  BY <1>1 DEF ProviderOK, FirewalldOK, StatConf, At, Invariant, OrderOK
<1>5. /\ providers' \subseteq ProviderType
      /\ \A q, r \in providers' : q.name = r.name => q = r
      /\ ProvidersOK'
  <2>1. CASE Report(p)
    BY <1>1, <1>3, <1>4, <2>1, Reported DEF Invariant
  <2>2. CASE UNCHANGED providers
    BY <1>3, <2>2 DEF Invariant, TypeOK, ProvidersOK, ProviderOK, NftOK,
         FirewalldOK, UfwOK, Still, SeenOpen, SeenLegacy, host, history
  <2> QED
    BY <1>2, <2>1, <2>2
<1>6. TypeOK'
  BY <1>5 DEF StatConf, At, Invariant, TypeOK, host, history, scan, Pending
<1>7. KernelOK'
  BY DEF StatConf, At, KernelOK
<1>8. OrderOK'
  BY <1>1, <1>2 DEF StatConf, At, Invariant, OrderOK, Report
<1>9. ScanOK'
  BY <1>2 DEF StatConf, At, Invariant, ScanOK, Says, host, history, scan
<1> QED
  BY <1>5, <1>6, <1>7, <1>8, <1>9 DEF Invariant, VerdictOK, StatConf, At

LEMMA ReadUfwKeeps == Invariant /\ ReadUfw => Invariant'
<1> SUFFICES ASSUME Invariant, ReadUfw PROVE Invariant'
  OBVIOUS
<1> DEFINE state == ParseUFWEnabled(machine.ufw)
           p == Provider("ufw", state, FALSE, FALSE)
<1>1. /\ p \in ProviderType /\ p.name = "ufw"
      /\ p.verified = FALSE /\ p.authoritative = FALSE
  <2>1. state \in {"enabled", "disabled", "unknown"}
    BY DEF ParseUFWEnabled
  <2> HIDE DEF state
  <2>2. \A x \in {"enabled", "disabled", "unknown"} :
          LET u == Provider("ufw", x, FALSE, FALSE)
          IN  u \in ProviderType /\ u.name = "ufw"
              /\ u.verified = FALSE /\ u.authoritative = FALSE
    BY DEF Provider, ProviderType
  <2> QED
    BY <2>1, <2>2
<1>2. Report(p) \/ UNCHANGED providers
  BY DEF ReadUfw
<1>3. UNCHANGED <<host, history>>
  BY DEF ReadUfw
<1> HIDE DEF p
<1>4. ProviderOK(p) /\ \A q \in providers : q.name # p.name
  BY <1>1 DEF ProviderOK, UfwOK, ReadUfw, At, Invariant, OrderOK
<1>5. /\ providers' \subseteq ProviderType
      /\ \A q, r \in providers' : q.name = r.name => q = r
      /\ ProvidersOK'
  <2>1. CASE Report(p)
    BY <1>1, <1>3, <1>4, <2>1, Reported DEF Invariant
  <2>2. CASE UNCHANGED providers
    BY <1>3, <2>2 DEF Invariant, TypeOK, ProvidersOK, ProviderOK, NftOK,
         FirewalldOK, UfwOK, Still, SeenOpen, SeenLegacy, host, history
  <2> QED
    BY <1>2, <2>1, <2>2
<1>6. TypeOK'
  BY <1>5 DEF ReadUfw, At, Invariant, TypeOK, host, history, scan, Pending
<1>7. KernelOK' /\ OrderOK'
  BY DEF ReadUfw, At, KernelOK, OrderOK
<1>8. ScanOK'
  BY <1>1, <1>2 DEF ReadUfw, At, Invariant, ScanOK, Says, Report, host, history, scan
<1> QED
  BY <1>5, <1>6, <1>7, <1>8 DEF Invariant, VerdictOK, ReadUfw, At

LEMMA JudgeKeeps == Invariant /\ Judge => Invariant'
<1> SUFFICES ASSUME Invariant, Judge PROVE Invariant'
  OBVIOUS
<1>1. checkFirewall(providers) \in {"PASS", "FAIL", "SKIP"}
  BY DEF checkFirewall
<1>2. TypeOK'
  <2>1. verdict' \in {"PASS", "FAIL", "SKIP"} /\ pc' = "done"
    BY <1>1 DEF Judge, At
  <2> QED
    BY <2>1 DEF Judge, Invariant, TypeOK, host, history, scan, Pending
<1>3. KernelOK' /\ OrderOK'
  BY DEF Judge, At, KernelOK, OrderOK
<1>4. ProvidersOK'
  BY DEF Judge, Invariant, ProvidersOK, ProviderOK, NftOK, FirewalldOK, UfwOK,
         Still, SeenOpen, SeenLegacy, host, history
<1>5. ScanOK'
  BY DEF Judge, At, Invariant, ScanOK, Says, host, history, scan
<1>6. VerdictOK'
  <2>1. verdict' = checkFirewall(providers) /\ providers' = providers
    BY DEF Judge
  <2> QED
    BY <2>1 DEF VerdictOK, checkFirewall
<1> QED
  BY <1>2, <1>3, <1>4, <1>5, <1>6 DEF Invariant

LEMMA ProcessChangesKeeps == Invariant /\ ProcessChanges => Invariant'
<1> SUFFICES ASSUME Invariant, ProcessChanges PROVE Invariant'
  OBVIOUS
<1>1. TypeOK'
  <2>1. changes' \in 0..MaxChanges
    BY BoundsAssumption DEF ProcessChanges, Invariant, TypeOK
  <2>2. procs' \in ProcessTable
    BY DEF ProcessChanges, Invariant, TypeOK, ProcessTable
  <2>3. steady' \subseteq Pid /\ ran' \subseteq Pid
    BY DEF ProcessChanges, Invariant, TypeOK
  <2> QED
    BY <2>1, <2>2, <2>3 DEF ProcessChanges, Invariant, TypeOK, scan
<1>2. KernelOK'
  BY DEF ProcessChanges, At, Invariant, TypeOK, KernelOK, Still, SeenOpen, SeenLegacy, host, history
<1>3. ProvidersOK'
  <2>1. changes' # 0
    BY BoundsAssumption DEF ProcessChanges, Invariant, TypeOK
  <2> QED
    BY <2>1 DEF ProcessChanges, Invariant, ProvidersOK, ProviderOK, NftOK,
         FirewalldOK, UfwOK, Still, SeenOpen, SeenLegacy
<1>4. OrderOK'
  BY DEF ProcessChanges, At, Invariant, OrderOK
<1>5. ScanOK'
  BY DEF ProcessChanges, At, Invariant, TypeOK, ScanOK, IsFirewalld, Says, Looked, host, history, scan
<1> QED
  BY <1>1, <1>2, <1>3, <1>4, <1>5 DEF Invariant, VerdictOK, ProcessChanges, At

LEMMA NextInvariant == Invariant /\ [Next]_vars => Invariant'
<1>1. Invariant /\ NftUnknown => Invariant'
  BY NftUnknownKeeps
<1>2. Invariant /\ NftFilters => Invariant'
  BY NftFiltersKeeps
<1>3. Invariant /\ NftOpen => Invariant'
  BY NftOpenKeeps
<1>4. Invariant /\ LegacyUnknown => Invariant'
  BY LegacyUnknownKeeps
<1>5. Invariant /\ ReadLegacyV4 => Invariant'
  BY ReadLegacyV4Keeps
<1>6. Invariant /\ ReadLegacyV6 => Invariant'
  BY ReadLegacyV6Keeps
<1>7. Invariant /\ ListFails => Invariant'
  BY ListFailsKeeps
<1>8. Invariant /\ List => Invariant'
  BY ListKeeps
<1>9. Invariant /\ ReadComm => Invariant'
  BY ReadCommKeeps
<1>10. Invariant /\ StatusIsRoot => Invariant'
  BY StatusIsRootKeeps
<1>11. Invariant /\ StatusIsNotRoot => Invariant'
  BY StatusIsNotRootKeeps
<1>12. Invariant /\ NotFound => Invariant'
  BY NotFoundKeeps
<1>13. Invariant /\ StatConf => Invariant'
  BY StatConfKeeps
<1>14. Invariant /\ ReadUfw => Invariant'
  BY ReadUfwKeeps
<1>15. Invariant /\ Judge => Invariant'
  BY JudgeKeeps
<1>16. Invariant /\ KernelChanges => Invariant'
  BY KernelChangesKeeps
<1>17. Invariant /\ ProcessChanges => Invariant'
  BY ProcessChangesKeeps
<1>18. Invariant /\ UNCHANGED vars => Invariant'
  <2> SUFFICES ASSUME Invariant, UNCHANGED vars PROVE Invariant'
    OBVIOUS
  <2> USE DEF vars, host, history, scan
  <2>1. TypeOK' /\ KernelOK'
    BY DEF Invariant, TypeOK, KernelOK, Still, SeenOpen, SeenLegacy
  <2>2. ProvidersOK'
    BY DEF Invariant, ProvidersOK, ProviderOK, NftOK, FirewalldOK, UfwOK, Still, SeenOpen, SeenLegacy
  <2>3. OrderOK' /\ VerdictOK'
    BY DEF Invariant, OrderOK, VerdictOK
  <2>4. ScanOK'
    BY DEF Invariant, ScanOK, Looked, Says
  <2> QED
    BY <2>1, <2>2, <2>3, <2>4 DEF Invariant
<1> QED
  BY <1>1, <1>2, <1>3, <1>4, <1>5, <1>6, <1>7, <1>8, <1>9, <1>10, <1>11, <1>12, <1>13, <1>14, <1>15, <1>16, <1>17, <1>18 DEF Next, Step, Done

LEMMA InvariantHolds == Spec => []Invariant
  BY InitInvariant, NextInvariant, PTL DEF Spec

(* The section and the verdict always have their shape, and no provider      *)
(* reports twice: findRootProcess returns at the first find.                *)
THEOREM TypeCorrect == Spec => []TypeOK
<1>1. Invariant => TypeOK
  BY DEF Invariant
<1> QED
  BY <1>1, InvariantHolds, PTL

LEMMA FailConclusive == Invariant => FailIsConclusive
<1> SUFFICES ASSUME Invariant, verdict = "FAIL" PROVE
      /\ machine.elevated /\ machine.legacy = LegacyFiles
      /\ kernels = {kernel} \/ (\A k \in kernels : ~LegacyLoaded(k))
           => \E k \in kernels : ~Filtered(k)
  BY DEF FailIsConclusive
<1>1. PICK p \in providers : p.state = "disabled" /\ p.authoritative
  <2>1. verdict = checkFirewall(providers)
    BY DEF Invariant, TypeOK, VerdictOK, Pending
  <2> QED
    BY <2>1 DEF checkFirewall
<1>2. p.name = "nft" /\ NftOK(p)
  BY <1>1 DEF Invariant, TypeOK, ProviderType, ProvidersOK, ProviderOK,
              FirewalldOK, UfwOK
<1>3. /\ machine.elevated /\ machine.legacy = LegacyFiles
      /\ SeenOpen /\ (Still => ~Filtered(kernel))
  BY <1>1, <1>2 DEF NftOK
<1>4. ASSUME NoLegacy PROVE \E k \in kernels : ~Filtered(k)
  BY <1>3, <1>4 DEF NoLegacy, SeenOpen, LegacyLoaded, Filtered
<1>5. ASSUME Still PROVE \E k \in kernels : ~Filtered(k)
  BY <1>3, <1>5 DEF Still
<1> QED
  BY <1>3, <1>4, <1>5 DEF NoLegacy, Still

(* FW-001 fails only for root, never on an unreadable list of legacy tables, *)
(* and conclusively unless rules moved between nft and the legacy tables    *)
(* during the audit.                                                        *)
THEOREM FailuresAreConclusive == Spec => []FailIsConclusive
  BY FailConclusive, InvariantHolds, PTL

(* FW-001 passes on what runs, not on what ufw.conf or firewalld.conf say.  *)
THEOREM PassesAreProven == Spec => []PassIsProven
<1>1. Invariant => PassIsProven
  <2> SUFFICES ASSUME Invariant, verdict = "PASS"
               PROVE  \/ \E k \in kernels : k.nft
                      \/ Says("firewalld", "enabled") /\ (changes = 0 => ran # {})
    BY DEF PassIsProven
  <2>1. PICK p \in providers : p.state = "enabled" /\ p.verified
    <3>1. verdict = checkFirewall(providers)
      BY DEF Invariant, TypeOK, VerdictOK, Pending
    <3> QED
      BY <3>1 DEF checkFirewall
  <2>2. ProviderOK(p) /\ p.name \in {"nft", "firewalld", "ufw"}
    BY DEF Invariant, TypeOK, ProviderType, ProvidersOK
  <2>3. CASE p.name = "nft"
    BY <2>1, <2>2, <2>3 DEF ProviderOK, NftOK
  <2>4. CASE p.name = "firewalld"
    BY <2>1, <2>2, <2>4 DEF ProviderOK, FirewalldOK, Says
  <2>5. CASE p.name = "ufw"
    BY <2>1, <2>2, <2>5 DEF ProviderOK, UfwOK
  <2> QED
    BY <2>2, <2>3, <2>4, <2>5
<1> QED
  BY <1>1, InvariantHolds, PTL

(* When nft could be asked, FW-001 is skipped only because legacy tables     *)
(* were loaded or one of their two lists could not be read.                 *)
THEOREM SkipsAreDoubts == Spec => []SkipIsDoubt
<1>1. Invariant => SkipIsDoubt
  <2> SUFFICES ASSUME Invariant, verdict = "SKIP",
                      NEW p \in providers, p.name = "nft", p.verified
               PROVE  machine.legacy # LegacyFiles \/ SeenLegacy
    BY DEF SkipIsDoubt, Verified, SeenLegacy
  <2>1. checkFirewall(providers) = "SKIP"
    BY DEF Invariant, TypeOK, VerdictOK, Pending
  <2>2. NftOK(p) /\ p.state \in {"enabled", "disabled", "unknown"}
    BY DEF Invariant, TypeOK, ProviderType, ProvidersOK, ProviderOK
  <2>3. p.state # "enabled"
    BY <2>1 DEF checkFirewall
  <2>4. p.state # "disabled"
    BY <2>1, <2>2 DEF checkFirewall, NftOK
  <2> QED
    BY <2>2, <2>3, <2>4 DEF NftOK
<1> QED
  BY <1>1, InvariantHolds, PTL

(* A firewalld that runs throughout is found by the scan of /proc, whatever  *)
(* the other processes do.                                                  *)
THEOREM DaemonsAreFound == Spec => []FirewalldIsFound
<1>1. Invariant => FirewalldIsFound
  <2> SUFFICES ASSUME Invariant PROVE FirewalldIsFound
    OBVIOUS
  <2>1. ASSUME verdict = "FAIL", ~warned PROVE steady = {}
    <3>1. checkFirewall(providers) = "FAIL" /\ pc = "done"
      BY <2>1 DEF Invariant, TypeOK, VerdictOK, Pending
    <3>2. ~Says("firewalld", "enabled")
      BY <3>1 DEF checkFirewall, Says, Invariant, ProvidersOK, ProviderOK,
                  FirewalldOK
    <3>3. steady \cap machine.visible = {}
      BY <2>1, <3>1, <3>2 DEF Invariant, ScanOK
    <3>4. machine.elevated
      BY <2>1, FailConclusive DEF FailIsConclusive
    <3> QED
      BY <3>3, <3>4, InputsAssumption DEF Invariant, TypeOK
  <2> QED
    BY <2>1 DEF FirewalldIsFound, Invariant, ScanOK
<1> QED
  BY <1>1, InvariantHolds, PTL
=============================================================================
