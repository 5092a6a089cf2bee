------------------------ MODULE SecurityAuditProofs ------------------------
(***************************************************************************)
(* Proofs about get_security_audit, for any number of calls in flight, any *)
(* machines and any umask.                                                 *)
(*                                                                         *)
(* The two system calls of gatherUmask are not atomic, and with two calls  *)
(* in flight the process may be left with another umask.  What is proved   *)
(* is the condition under which it is not: as long as no two audits are    *)
(* between the two system calls at once, whatever else they interleave,    *)
(* the umask is restored and told right.                                   *)
(***************************************************************************)
EXTENDS SecurityAudit, WellFoundedInduction, TLAPS

\* A set of numbers up to n that is not empty has a greatest one, which is what
\* Max chooses: the minimal element of the distances to n.
LEMMA MaxIsMember ==
    ASSUME NEW n \in Nat, NEW S \in SUBSET (1..n), S # {}
    PROVE  Max(S) \in S /\ \A y \in S : Max(S) >= y
<1> DEFINE T == {d \in Nat : n - d \in S}
<1>1. T \subseteq Nat /\ T # {}
  <2>1. PICK x \in S : TRUE
    OBVIOUS
  <2>2. n - x \in Nat /\ n - (n - x) = x
    OBVIOUS
  <2>3. QED
    BY <2>1, <2>2
<1>2. PICK d \in T : \A e \in T : <<e, d>> \notin OpToRel(<, Nat)
  BY <1>1, NatLessThanWellFounded, WFMin
<1>3. ASSUME NEW y \in S PROVE n - d >= y
  <2>1. n - y \in T
    BY DEF T
  <2>2. ~ (n - y < d)
    BY <1>1, <1>2, <2>1 DEF OpToRel
  <2>3. QED
    BY <2>2
<1>4. n - d \in S
  OBVIOUS
<1>5. QED
  BY <1>3, <1>4 DEF Max

\* Whatever the lines set, every key has a setting in the end.
LEMMA InOrderType ==
    ASSUME NEW n \in Nat, NEW results \in [1..n -> [Keys -> Settings]]
    PROVE  InOrder(results) \in [Keys -> Settings]
<1>1. ASSUME NEW k \in Keys
      PROVE  InOrder(results)[k] \in Settings
  <2> DEFINE setting == {i \in DOMAIN results : results[i][k] # "absent"}
  <2>1. InOrder(results)[k] =
            IF setting = {} THEN "absent" ELSE results[Max(setting)][k]
    BY DEF InOrder
  <2>2. setting \subseteq 1..n
    OBVIOUS
  <2> HIDE DEF setting
  <2>3. CASE setting = {}
    BY <2>1, <2>3 DEF Settings
  <2>4. CASE setting # {}
    BY <2>1, <2>2, <2>4, MaxIsMember
  <2>5. QED
    BY <2>3, <2>4
<1>2. InOrder(results) = [k \in Keys |-> InOrder(results)[k]]
  BY DEF InOrder
<1>3. QED
  BY <1>1, <1>2

\* A line that sets a key leaves the other alone.
LEMMA SetValueType ==
    ASSUME NEW line \in SetLine
    PROVE  SetValue(line) \in [Keys -> Settings]
  BY DEF SetLine, SetValue, Unset, Settings, Keys

\* What sshd_config says is a setting for every key, with drop-in files too.
LEMMA ParseType ==
    ASSUME NEW m \in Machines
    PROVE  parseSSHDConfig(m.sshd) \in [Keys -> Settings]
<1> DEFINE n == Len(m.sshd)
           results == [i \in DOMAIN m.sshd |-> ParseLine(m.sshd[i])]
<1>1. n \in Nat /\ DOMAIN m.sshd = 1..n
  BY MachinesAssumption
<1>2. ASSUME NEW i \in DOMAIN m.sshd
      PROVE  ParseLine(m.sshd[i]) \in [Keys -> Settings]
  <2>1. CASE IsInclude(m.sshd[i])
    <3> DEFINE lines == m.sshd[i].val
               sub == [j \in DOMAIN lines |-> SetValue(lines[j])]
    <3>1. lines \in Seq(SetLine)
      BY <2>1, MachinesAssumption
    <3> HIDE DEF lines
    <3>2. Len(lines) \in Nat /\ sub \in [1..Len(lines) -> [Keys -> Settings]]
      BY <3>1, SetValueType
    <3>3. InOrder(sub) \in [Keys -> Settings]
      BY <3>2, InOrderType
    <3>4. ParseLine(m.sshd[i]) = InOrder(sub)
      BY <2>1 DEF ParseLine, lines
    <3>5. QED
      BY <3>3, <3>4
  <2>2. CASE ~IsInclude(m.sshd[i])
    BY <2>2, MachinesAssumption, SetValueType DEF ParseLine
  <2>3. QED
    BY <2>1, <2>2
<1>3. results \in [1..n -> [Keys -> Settings]]
  BY <1>1, <1>2
<1>4. parseSSHDConfig(m.sshd) = InOrder(results)
  BY DEF parseSSHDConfig
<1>5. QED
  BY <1>1, <1>3, <1>4, InOrderType

\* The deductions add up to 75 at most.
LEMMA ScoreType ==
    ASSUME NEW out
    PROVE  computeSecurityScore(out) \in 0..100 /\ computeSecurityScore(out) >= 25
  BY DEF computeSecurityScore, Deduct

-----------------------------------------------------------------------------
(* Types and the score, for audits that overlap in any way.                *)

Audit == [pc : Steps, mask : Masks \cup {"none"}, out : Output]

\* Between the two system calls, an audit holds a umask.
MaskHeld == \A a \in Audits : audits[a].pc = "restore" => audits[a].mask \in Masks

\* The score of an answer is the one computed for what the answer says.
ScoreComputed ==
    \A a \in Audits : audits[a].pc = "done" =>
        audits[a].out.score = computeSecurityScore(audits[a].out)

AuditInv == TypeOK /\ MaskHeld /\ ScoreComputed

\* A step that replaces one audit and leaves a umask.
LEMMA AuditStep ==
    ASSUME AuditInv, NEW a \in Audits, NEW audit \in Audit,
           audits' = [audits EXCEPT ![a] = audit], umask' \in Masks,
           UNCHANGED <<machine, ownUmask>>,
           audit.pc = "restore" => audit.mask \in Masks,
           audit.pc = "done" => audit.out.score = computeSecurityScore(audit.out)
    PROVE  AuditInv'
<1>1. audits \in [Audits -> Audit]
  BY DEF AuditInv, TypeOK, Audit
<1>2. /\ audits' \in [Audits -> Audit] /\ audits'[a] = audit
      /\ \A b \in Audits \ {a} : audits'[b] = audits[b]
  BY <1>1
<1>3. TypeOK'
  BY <1>2 DEF AuditInv, TypeOK, Audit
<1>4. MaskHeld'
  BY <1>2 DEF AuditInv, MaskHeld
<1>5. ScoreComputed'
  BY <1>2 DEF AuditInv, ScoreComputed
<1>6. QED
  BY <1>3, <1>4, <1>5 DEF AuditInv

\* A probe that does not lead into the system calls or to the answer.
LEMMA ProbeStep ==
    ASSUME AuditInv, NEW a \in Audits, NEW pc,
           NEW next \in Steps \ {"restore", "done"}, NEW out \in Output,
           Probe(a, pc, next, out)
    PROVE  AuditInv'
<1> DEFINE audit == [audits[a] EXCEPT !.pc = next, !.out = out]
<1>1. audits \in [Audits -> Audit] /\ audits[a] \in Audit /\ umask \in Masks
  BY DEF AuditInv, TypeOK, Audit
<1>2. audit \in Audit /\ audit.pc = next
  BY <1>1 DEF Audit
<1>3. audits' = [audits EXCEPT ![a] = audit]
  BY <1>1 DEF Probe
<1> HIDE DEF audit
<1>4. QED
  BY <1>1, <1>2, <1>3, AuditStep DEF Probe

\* The initial states satisfy the invariant.
LEMMA InitAuditInv == Init => AuditInv
<1> SUFFICES ASSUME Init PROVE AuditInv
  OBVIOUS
<1>1. EmptyOut \in Output
  BY DEF EmptyOut, Output, Unset, Settings
<1>2. Idle \in Audit /\ Idle.pc = "idle"
  BY <1>1 DEF Idle, Audit, Steps
<1>3. QED
  BY <1>2 DEF Init, AuditInv, TypeOK, Audit, Masks, MaskHeld, ScoreComputed

\* Every step preserves it.
LEMMA NextAuditInv == AuditInv /\ [Next]_vars => AuditInv'
<1> SUFFICES ASSUME AuditInv, [Next]_vars PROVE AuditInv'
  OBVIOUS
<1>1. CASE UNCHANGED vars
  BY <1>1 DEF vars, AuditInv, TypeOK, MaskHeld, ScoreComputed
<1>2. EmptyOut \in Output
  BY DEF EmptyOut, Output, Unset, Settings
<1>3. ASSUME NEW a \in Audits PROVE audits[a] \in Audit /\ audits[a].out \in Output
  BY DEF AuditInv, TypeOK, Audit
<1>4. ASSUME NEW a \in Audits, Begin(a) PROVE AuditInv'
  BY <1>2, <1>4, ProbeStep DEF Begin, Steps
<1>5. ASSUME NEW a \in Audits, NEW finished \in BOOLEAN, gatherFirewall(a, finished)
      PROVE  AuditInv'
  <2> DEFINE active == finished /\ FirewallActive(machine)
             out == [audits[a].out EXCEPT !.firewall = active]
  <2>1. active \in BOOLEAN
    OBVIOUS
  <2>2. out \in Output
    BY <1>3, <2>1 DEF Output
  <2>3. QED
    BY <1>5, <2>2, ProbeStep DEF gatherFirewall, Steps
<1>6. ASSUME NEW a \in Audits, gatherSSHHardening(a) PROVE AuditInv'
  <2> DEFINE ssh == parseSSHDConfig(machine.sshd)
             out == [audits[a].out EXCEPT !.sshPresent = TRUE, !.ssh = ssh]
  <2>1. ssh \in [Keys -> Settings]
    BY ParseType DEF AuditInv, TypeOK
  <2> HIDE DEF ssh
  <2>2. out \in Output
    BY <1>3, <2>1 DEF Output
  <2> HIDE DEF out
  <2>3. (IF machine.sshdPresent THEN out ELSE audits[a].out) \in Output
    BY <1>3, <2>2
  <2>4. Probe(a, "ssh", "files", IF machine.sshdPresent THEN out ELSE audits[a].out)
    BY <1>6 DEF gatherSSHHardening, out, ssh
  <2>5. QED
    BY <2>3, <2>4, ProbeStep DEF Steps
<1>7. ASSUME NEW a \in Audits, NEW finished \in BOOLEAN, gatherFiles(a, finished)
      PROVE  AuditInv'
  <2> DEFINE suid == finished /\ machine.manySuid
             writable == finished /\ machine.worldWritable
             out == [audits[a].out EXCEPT !.manySuid = suid,
                                          !.worldWritable = writable]
  <2>1. suid \in BOOLEAN /\ writable \in BOOLEAN
    BY MachinesAssumption DEF AuditInv, TypeOK
  <2> HIDE DEF suid, writable
  <2>2. out \in Output
    BY <1>3, <2>1 DEF Output
  <2> HIDE DEF out
  <2>3. Probe(a, "files", "umask", out)
    BY <1>7 DEF gatherFiles, out, suid, writable
  <2>4. QED
    BY <2>2, <2>3, ProbeStep DEF Steps
<1>8. ASSUME NEW a \in Audits, ClearUmask(a) PROVE AuditInv'
  <2> DEFINE audit == [audits[a] EXCEPT !.pc = "restore", !.mask = umask]
  <2>1. umask \in Masks /\ audits \in [Audits -> Audit]
    BY DEF AuditInv, TypeOK, Audit
  <2>2. audit \in Audit /\ audit.pc = "restore" /\ audit.mask = umask
    BY <1>3, <2>1 DEF Audit, Steps
  <2>3. audits' = [audits EXCEPT ![a] = audit] /\ umask' \in Masks
    BY <1>8, <2>1 DEF ClearUmask, Masks
  <2> HIDE DEF audit
  <2>4. QED
    BY <1>8, <2>1, <2>2, <2>3, AuditStep DEF ClearUmask
<1>9. ASSUME NEW a \in Audits, RestoreUmask(a) PROVE AuditInv'
  <2> DEFINE out == [audits[a].out EXCEPT !.umask = audits[a].mask]
             audit == [audits[a] EXCEPT !.pc = "policy", !.out = out]
  <2>1. audits[a].mask \in Masks /\ audits \in [Audits -> Audit]
    BY <1>9 DEF AuditInv, MaskHeld, RestoreUmask, TypeOK, Audit
  <2>2. out \in Output
    BY <1>3, <2>1 DEF Output
  <2>3. audits' = [audits EXCEPT ![a] = audit] /\ umask' \in Masks
    BY <1>9, <2>1 DEF RestoreUmask
  <2> HIDE DEF out
  <2>4. audit \in Audit /\ audit.pc = "policy"
    BY <1>3, <2>2 DEF Audit, Steps
  <2> HIDE DEF audit
  <2>5. QED
    BY <1>9, <2>3, <2>4, AuditStep DEF RestoreUmask
<1>10. ASSUME NEW a \in Audits, gatherPasswordPolicy(a) PROVE AuditInv'
  <2> DEFINE out == [audits[a].out EXCEPT !.passMaxDays = machine.passMaxDays]
  <2>1. machine.passMaxDays \in {"absent", "garbage", "upTo90", "over90"}
    BY MachinesAssumption DEF AuditInv, TypeOK
  <2>2. out \in Output
    BY <1>3, <2>1 DEF Output
  <2> HIDE DEF out
  <2>3. Probe(a, "policy", "score", out)
    BY <1>10 DEF gatherPasswordPolicy, out
  <2>4. QED
    BY <2>2, <2>3, ProbeStep DEF Steps
<1>11. ASSUME NEW a \in Audits, Score(a) PROVE AuditInv'
  <2> DEFINE old == audits[a].out
             score == computeSecurityScore(old)
             out == [old EXCEPT !.score = score]
             audit == [audits[a] EXCEPT !.pc = "done", !.out = out]
  <2>1. audits \in [Audits -> Audit] /\ umask \in Masks /\ old \in Output
    BY <1>3 DEF AuditInv, TypeOK, Audit
  <2>2. score \in 0..100
    BY ScoreType
  <2>3. computeSecurityScore(out) = score
    <3>1. /\ out.firewall = old.firewall /\ out.ssh = old.ssh
          /\ out.sshPresent = old.sshPresent /\ out.manySuid = old.manySuid
          /\ out.worldWritable = old.worldWritable /\ out.umask = old.umask
          /\ out.passMaxDays = old.passMaxDays
      BY <2>1 DEF Output
    <3> HIDE DEF out
    <3>2. QED
      BY <3>1 DEF computeSecurityScore, BadRoot, BadUmask, BadMaxDays
  <2>4. audits' = [audits EXCEPT ![a] = audit]
    BY <1>11, <2>1 DEF Score, Probe
  <2> HIDE DEF score
  <2>5. out \in Output /\ out.score = score
    BY <2>1, <2>2 DEF Output
  <2> HIDE DEF out
  <2>6. audit \in Audit /\ audit.pc = "done" /\ audit.out = out
    BY <1>3, <2>5 DEF Audit, Steps
  <2> HIDE DEF audit
  <2>7. audit.out.score = computeSecurityScore(audit.out)
    BY <2>3, <2>5, <2>6
  <2>8. UNCHANGED <<machine, ownUmask, umask>>
    BY <1>11 DEF Score, Probe
  <2>9. QED
    BY <2>1, <2>4, <2>6, <2>7, <2>8, AuditStep
<1>12. ASSUME NEW a \in Audits, Answered(a) PROVE AuditInv'
  <2>1. Idle \in Audit /\ Idle.pc = "idle"
    BY <1>2 DEF Idle, Audit, Steps
  <2>2. umask \in Masks
    BY DEF AuditInv, TypeOK
  <2>3. QED
    BY <1>12, <2>1, <2>2, AuditStep DEF Answered
<1>13. QED
  BY <1>1, <1>4, <1>5, <1>6, <1>7, <1>8, <1>9, <1>10, <1>11, <1>12 DEF Next

\* The invariant holds throughout.
THEOREM AuditInvariant == Spec => []AuditInv
  BY InitAuditInv, NextAuditInv, PTL DEF Spec

\* Every audit is well formed and its score is between 0 and 100, whatever
\* sshd_config and its drop-in files say.
THEOREM AuditTypeCorrect == Spec => []TypeOK
<1>1. AuditInv => TypeOK
  BY DEF AuditInv
<1>2. QED
  BY <1>1, AuditInvariant, PTL

-----------------------------------------------------------------------------
(* What the score says.                                                    *)

\* The findings of an output, as points.
NoFirewallPoints(out) == Deduct(~out.firewall, 15)
RootLoginPoints(out) == Deduct(BadRoot(out), 20)
PasswordsPoints(out) == Deduct(out.ssh["passwordauthentication"] = "yes", 10)
SuidPoints(out) == Deduct(out.manySuid, 10)
WritablePoints(out) == Deduct(out.worldWritable, 10)
UmaskPoints(out) == Deduct(BadUmask(out), 5)
MaxDaysPoints(out) == Deduct(BadMaxDays(out), 5)

\* The score is 100 less the points of the findings.
LEMMA ScoreIsSum ==
    ASSUME NEW out
    PROVE  /\ computeSecurityScore(out) = 100
                - NoFirewallPoints(out) - RootLoginPoints(out)
                - PasswordsPoints(out) - SuidPoints(out) - WritablePoints(out)
                - UmaskPoints(out) - MaxDaysPoints(out)
           /\ NoFirewallPoints(out) \in {0, 15} /\ RootLoginPoints(out) \in {0, 20}
           /\ PasswordsPoints(out) \in {0, 10} /\ SuidPoints(out) \in {0, 10}
           /\ WritablePoints(out) \in {0, 10} /\ UmaskPoints(out) \in {0, 5}
           /\ MaxDaysPoints(out) \in {0, 5}
  BY DEF computeSecurityScore, Deduct, NoFirewallPoints, RootLoginPoints,
         PasswordsPoints, SuidPoints, WritablePoints, UmaskPoints, MaxDaysPoints

\* The outputs that have one finding less.
Better(out) == {[out EXCEPT !.firewall = TRUE],
                [out EXCEPT !.ssh["permitrootlogin"] = "no"],
                [out EXCEPT !.ssh["passwordauthentication"] = "no"],
                [out EXCEPT !.manySuid = FALSE],
                [out EXCEPT !.worldWritable = FALSE],
                [out EXCEPT !.umask = "0077"],
                [out EXCEPT !.passMaxDays = "upTo90"]}

\* Each of them takes the points of its finding back, and no others.
LEMMA HardeningPays ==
    ASSUME NEW out \in Output
    PROVE  /\ \A b \in Better(out) :
                  computeSecurityScore(b) >= computeSecurityScore(out)
           /\ (\A b \in Better(out) :
                  computeSecurityScore(b) = computeSecurityScore(out))
                  <=> computeSecurityScore(out) = 100
<1> DEFINE ScoreOf(b) == computeSecurityScore(b)
<1>0. out.ssh \in [Keys -> Settings] /\ DOMAIN out.ssh = Keys
  BY DEF Output
<1>1. ScoreOf([out EXCEPT !.firewall = TRUE])
        = ScoreOf(out) + NoFirewallPoints(out)
  <2>0. PICK b : b = [out EXCEPT !.firewall = TRUE]
    OBVIOUS
  <2>1. /\ b.firewall = TRUE
        /\ b.ssh = out.ssh /\ b.sshPresent = out.sshPresent
        /\ b.manySuid = out.manySuid /\ b.worldWritable = out.worldWritable
        /\ b.umask = out.umask /\ b.passMaxDays = out.passMaxDays
    BY <1>0, <2>0 DEF Output, Keys
  <2>2. /\ NoFirewallPoints(b) = 0
        /\ RootLoginPoints(b) = RootLoginPoints(out)
        /\ PasswordsPoints(b) = PasswordsPoints(out)
        /\ SuidPoints(b) = SuidPoints(out)
        /\ WritablePoints(b) = WritablePoints(out)
        /\ UmaskPoints(b) = UmaskPoints(out)
        /\ MaxDaysPoints(b) = MaxDaysPoints(out)
    BY <2>1 DEF NoFirewallPoints, RootLoginPoints, PasswordsPoints, SuidPoints,
       WritablePoints, UmaskPoints, MaxDaysPoints, Deduct, BadRoot, BadUmask,
       BadMaxDays
  <2>3. ScoreOf(b) = ScoreOf(out) + NoFirewallPoints(out)
    BY <2>2, ScoreIsSum
  <2>4. QED
    BY <2>0, <2>3
<1>2. ScoreOf([out EXCEPT !.ssh["permitrootlogin"] = "no"])
        = ScoreOf(out) + RootLoginPoints(out)
  <2>0. PICK b : b = [out EXCEPT !.ssh["permitrootlogin"] = "no"]
    OBVIOUS
  <2>1. /\ b.ssh["permitrootlogin"] = "no"
        /\ b.ssh["passwordauthentication"] = out.ssh["passwordauthentication"]
        /\ b.firewall = out.firewall /\ b.sshPresent = out.sshPresent
        /\ b.manySuid = out.manySuid /\ b.worldWritable = out.worldWritable
        /\ b.umask = out.umask /\ b.passMaxDays = out.passMaxDays
    BY <1>0, <2>0 DEF Output, Keys
  <2>2. /\ RootLoginPoints(b) = 0
        /\ NoFirewallPoints(b) = NoFirewallPoints(out)
        /\ PasswordsPoints(b) = PasswordsPoints(out)
        /\ SuidPoints(b) = SuidPoints(out)
        /\ WritablePoints(b) = WritablePoints(out)
        /\ UmaskPoints(b) = UmaskPoints(out)
        /\ MaxDaysPoints(b) = MaxDaysPoints(out)
    BY <2>1 DEF NoFirewallPoints, RootLoginPoints, PasswordsPoints, SuidPoints,
       WritablePoints, UmaskPoints, MaxDaysPoints, Deduct, BadRoot, BadUmask,
       BadMaxDays
  <2>3. ScoreOf(b) = ScoreOf(out) + RootLoginPoints(out)
    BY <2>2, ScoreIsSum
  <2>4. QED
    BY <2>0, <2>3
<1>3. ScoreOf([out EXCEPT !.ssh["passwordauthentication"] = "no"])
        = ScoreOf(out) + PasswordsPoints(out)
  <2>0. PICK b : b = [out EXCEPT !.ssh["passwordauthentication"] = "no"]
    OBVIOUS
  <2>1. /\ b.ssh["passwordauthentication"] = "no"
        /\ b.ssh["permitrootlogin"] = out.ssh["permitrootlogin"]
        /\ b.firewall = out.firewall /\ b.sshPresent = out.sshPresent
        /\ b.manySuid = out.manySuid /\ b.worldWritable = out.worldWritable
        /\ b.umask = out.umask /\ b.passMaxDays = out.passMaxDays
    BY <1>0, <2>0 DEF Output, Keys
  <2>2. /\ PasswordsPoints(b) = 0
        /\ NoFirewallPoints(b) = NoFirewallPoints(out)
        /\ RootLoginPoints(b) = RootLoginPoints(out)
        /\ SuidPoints(b) = SuidPoints(out)
        /\ WritablePoints(b) = WritablePoints(out)
        /\ UmaskPoints(b) = UmaskPoints(out)
        /\ MaxDaysPoints(b) = MaxDaysPoints(out)
    BY <2>1 DEF NoFirewallPoints, RootLoginPoints, PasswordsPoints, SuidPoints,
       WritablePoints, UmaskPoints, MaxDaysPoints, Deduct, BadRoot, BadUmask,
       BadMaxDays
  <2>3. ScoreOf(b) = ScoreOf(out) + PasswordsPoints(out)
    BY <2>2, ScoreIsSum
  <2>4. QED
    BY <2>0, <2>3
<1>4. ScoreOf([out EXCEPT !.manySuid = FALSE])
        = ScoreOf(out) + SuidPoints(out)
  <2>0. PICK b : b = [out EXCEPT !.manySuid = FALSE]
    OBVIOUS
  <2>1. /\ b.manySuid = FALSE
        /\ b.firewall = out.firewall /\ b.ssh = out.ssh
        /\ b.sshPresent = out.sshPresent /\ b.worldWritable = out.worldWritable
        /\ b.umask = out.umask /\ b.passMaxDays = out.passMaxDays
    BY <1>0, <2>0 DEF Output, Keys
  <2>2. /\ SuidPoints(b) = 0
        /\ NoFirewallPoints(b) = NoFirewallPoints(out)
        /\ RootLoginPoints(b) = RootLoginPoints(out)
        /\ PasswordsPoints(b) = PasswordsPoints(out)
        /\ WritablePoints(b) = WritablePoints(out)
        /\ UmaskPoints(b) = UmaskPoints(out)
        /\ MaxDaysPoints(b) = MaxDaysPoints(out)
    BY <2>1 DEF NoFirewallPoints, RootLoginPoints, PasswordsPoints, SuidPoints,
       WritablePoints, UmaskPoints, MaxDaysPoints, Deduct, BadRoot, BadUmask,
       BadMaxDays
  <2>3. ScoreOf(b) = ScoreOf(out) + SuidPoints(out)
    BY <2>2, ScoreIsSum
  <2>4. QED
    BY <2>0, <2>3
<1>5. ScoreOf([out EXCEPT !.worldWritable = FALSE])
        = ScoreOf(out) + WritablePoints(out)
  <2>0. PICK b : b = [out EXCEPT !.worldWritable = FALSE]
    OBVIOUS
  <2>1. /\ b.worldWritable = FALSE
        /\ b.firewall = out.firewall /\ b.ssh = out.ssh
        /\ b.sshPresent = out.sshPresent /\ b.manySuid = out.manySuid
        /\ b.umask = out.umask /\ b.passMaxDays = out.passMaxDays
    BY <1>0, <2>0 DEF Output, Keys
  <2>2. /\ WritablePoints(b) = 0
        /\ NoFirewallPoints(b) = NoFirewallPoints(out)
        /\ RootLoginPoints(b) = RootLoginPoints(out)
        /\ PasswordsPoints(b) = PasswordsPoints(out)
        /\ SuidPoints(b) = SuidPoints(out)
        /\ UmaskPoints(b) = UmaskPoints(out)
        /\ MaxDaysPoints(b) = MaxDaysPoints(out)
    BY <2>1 DEF NoFirewallPoints, RootLoginPoints, PasswordsPoints, SuidPoints,
       WritablePoints, UmaskPoints, MaxDaysPoints, Deduct, BadRoot, BadUmask,
       BadMaxDays
  <2>3. ScoreOf(b) = ScoreOf(out) + WritablePoints(out)
    BY <2>2, ScoreIsSum
  <2>4. QED
    BY <2>0, <2>3
<1>6. ScoreOf([out EXCEPT !.umask = "0077"])
        = ScoreOf(out) + UmaskPoints(out)
  <2>0. PICK b : b = [out EXCEPT !.umask = "0077"]
    OBVIOUS
  <2>1. /\ b.umask = "0077"
        /\ b.firewall = out.firewall /\ b.ssh = out.ssh
        /\ b.sshPresent = out.sshPresent /\ b.manySuid = out.manySuid
        /\ b.worldWritable = out.worldWritable /\ b.passMaxDays = out.passMaxDays
    BY <1>0, <2>0 DEF Output, Keys
  <2>2. /\ UmaskPoints(b) = 0
        /\ NoFirewallPoints(b) = NoFirewallPoints(out)
        /\ RootLoginPoints(b) = RootLoginPoints(out)
        /\ PasswordsPoints(b) = PasswordsPoints(out)
        /\ SuidPoints(b) = SuidPoints(out)
        /\ WritablePoints(b) = WritablePoints(out)
        /\ MaxDaysPoints(b) = MaxDaysPoints(out)
    BY <2>1 DEF NoFirewallPoints, RootLoginPoints, PasswordsPoints, SuidPoints,
       WritablePoints, UmaskPoints, MaxDaysPoints, Deduct, BadRoot, BadUmask,
       BadMaxDays
  <2>3. ScoreOf(b) = ScoreOf(out) + UmaskPoints(out)
    BY <2>2, ScoreIsSum
  <2>4. QED
    BY <2>0, <2>3
<1>7. ScoreOf([out EXCEPT !.passMaxDays = "upTo90"])
        = ScoreOf(out) + MaxDaysPoints(out)
  <2>0. PICK b : b = [out EXCEPT !.passMaxDays = "upTo90"]
    OBVIOUS
  <2>1. /\ b.passMaxDays = "upTo90"
        /\ b.firewall = out.firewall /\ b.ssh = out.ssh
        /\ b.sshPresent = out.sshPresent /\ b.manySuid = out.manySuid
        /\ b.worldWritable = out.worldWritable /\ b.umask = out.umask
    BY <1>0, <2>0 DEF Output, Keys
  <2>2. /\ MaxDaysPoints(b) = 0
        /\ NoFirewallPoints(b) = NoFirewallPoints(out)
        /\ RootLoginPoints(b) = RootLoginPoints(out)
        /\ PasswordsPoints(b) = PasswordsPoints(out)
        /\ SuidPoints(b) = SuidPoints(out)
        /\ WritablePoints(b) = WritablePoints(out)
        /\ UmaskPoints(b) = UmaskPoints(out)
    BY <2>1 DEF NoFirewallPoints, RootLoginPoints, PasswordsPoints, SuidPoints,
       WritablePoints, UmaskPoints, MaxDaysPoints, Deduct, BadRoot, BadUmask,
       BadMaxDays
  <2>3. ScoreOf(b) = ScoreOf(out) + MaxDaysPoints(out)
    BY <2>2, ScoreIsSum
  <2>4. QED
    BY <2>0, <2>3
<1> HIDE DEF ScoreOf
<1>8. ScoreOf(out) \in Int
  BY ScoreType DEF ScoreOf
<1>9. ASSUME NEW b \in Better(out)
      PROVE  \/ ScoreOf(b) = ScoreOf(out) + NoFirewallPoints(out)
             \/ ScoreOf(b) = ScoreOf(out) + RootLoginPoints(out)
             \/ ScoreOf(b) = ScoreOf(out) + PasswordsPoints(out)
             \/ ScoreOf(b) = ScoreOf(out) + SuidPoints(out)
             \/ ScoreOf(b) = ScoreOf(out) + WritablePoints(out)
             \/ ScoreOf(b) = ScoreOf(out) + UmaskPoints(out)
             \/ ScoreOf(b) = ScoreOf(out) + MaxDaysPoints(out)
  BY <1>1, <1>2, <1>3, <1>4, <1>5, <1>6, <1>7, Zenon DEF Better
<1>10. ASSUME \A b \in Better(out) : ScoreOf(b) = ScoreOf(out)
       PROVE  ScoreOf(out) = 100
  <2>1. /\ ScoreOf([out EXCEPT !.firewall = TRUE]) = ScoreOf(out)
        /\ ScoreOf([out EXCEPT !.ssh["permitrootlogin"] = "no"]) = ScoreOf(out)
        /\ ScoreOf([out EXCEPT !.ssh["passwordauthentication"] = "no"])
               = ScoreOf(out)
        /\ ScoreOf([out EXCEPT !.manySuid = FALSE]) = ScoreOf(out)
        /\ ScoreOf([out EXCEPT !.worldWritable = FALSE]) = ScoreOf(out)
        /\ ScoreOf([out EXCEPT !.umask = "0077"]) = ScoreOf(out)
        /\ ScoreOf([out EXCEPT !.passMaxDays = "upTo90"]) = ScoreOf(out)
    BY <1>10, Zenon DEF Better
  <2>2. /\ NoFirewallPoints(out) = 0 /\ RootLoginPoints(out) = 0
               /\ PasswordsPoints(out) = 0 /\ SuidPoints(out) = 0
               /\ WritablePoints(out) = 0 /\ UmaskPoints(out) = 0
               /\ MaxDaysPoints(out) = 0
    BY <1>1, <1>2, <1>3, <1>4, <1>5, <1>6, <1>7, <1>8, <2>1, ScoreIsSum
  <2>3. QED
    BY <2>2, ScoreIsSum DEF ScoreOf
<1>11. ASSUME ScoreOf(out) = 100
       PROVE  \A b \in Better(out) : ScoreOf(b) = ScoreOf(out)
  <2>1. /\ NoFirewallPoints(out) = 0 /\ RootLoginPoints(out) = 0
               /\ PasswordsPoints(out) = 0 /\ SuidPoints(out) = 0
               /\ WritablePoints(out) = 0 /\ UmaskPoints(out) = 0
               /\ MaxDaysPoints(out) = 0
    BY <1>11, ScoreIsSum DEF ScoreOf
  <2>2. QED
    BY <1>8, <1>9, <2>1
<1>12. \A b \in Better(out) : ScoreOf(b) >= ScoreOf(out)
  BY <1>8, <1>9, ScoreIsSum
<1>13. QED
  BY <1>10, <1>11, <1>12, Zenon DEF ScoreOf

\* For audits that overlap in any way, on any machine: an answer without a
\* finding scores 100, and fixing a single finding never costs points.
THEOREM ScoreIsFair == Spec => []ScoreRewardsHardening
<1>1. AuditInv => ScoreRewardsHardening
  <2> SUFFICES ASSUME AuditInv, NEW a \in Audits, audits[a].pc = "done"
               PROVE  LET out == audits[a].out
                      IN /\ \A b \in Better(out) :
                                computeSecurityScore(b) >= out.score
                         /\ (\A b \in Better(out) :
                                computeSecurityScore(b) = out.score)
                                <=> out.score = 100
    BY DEF ScoreRewardsHardening, Better
  <2>1. audits[a].out \in Output
    BY DEF AuditInv, TypeOK
  <2>2. audits[a].out.score = computeSecurityScore(audits[a].out)
    BY DEF AuditInv, ScoreComputed
  <2>3. /\ \A b \in Better(audits[a].out) :
               computeSecurityScore(b) >= computeSecurityScore(audits[a].out)
        /\ (\A b \in Better(audits[a].out) :
               computeSecurityScore(b) = computeSecurityScore(audits[a].out))
               <=> computeSecurityScore(audits[a].out) = 100
    BY <2>1, HardeningPays
  <2>4. QED
    BY <2>2, <2>3
<1>2. QED
  BY <1>1, AuditInvariant, PTL

-----------------------------------------------------------------------------
(* The umask.                                                              *)

\* At most one audit is between its two system calls.
WindowsApart ==
    \A a, b \in Audits :
        audits[a].pc = "restore" /\ audits[b].pc = "restore" => a = b

\* The umask an audit has read is the one the process was started with, from
\* the first system call to the answer.
MaskIsOwn ==
    \A a \in Audits :
        /\ audits[a].pc = "restore" => audits[a].mask = ownUmask
        /\ audits[a].pc \in {"policy", "score", "done"} =>
               audits[a].out.umask = ownUmask

\* A probe other than the system calls leaves the umask alone, and so what an
\* audit has read of it.
LEMMA ProbeKeepsUmask ==
    ASSUME TypeOK, UmaskRestored, MaskIsOwn, NEW a \in Audits,
           NEW pc, NEW next, NEW out, Probe(a, pc, next, out),
           pc # "restore", next # "restore",
           next \in {"policy", "score", "done"} =>
               /\ pc \in {"policy", "score", "done"}
               /\ out.umask = audits[a].out.umask
    PROVE  UmaskRestored' /\ MaskIsOwn'
<1>1. audits \in [Audits -> Audit] /\ audits[a] \in Audit
  BY DEF TypeOK, Audit
<1>2. /\ audits'[a].pc = next /\ audits'[a].out = out
      /\ \A b \in Audits \ {a} : audits'[b] = audits[b]
  BY <1>1 DEF Probe, Audit
<1>3. audits[a].pc = pc /\ UNCHANGED <<ownUmask, umask>>
  BY DEF Probe
<1>4. UmaskRestored'
  BY <1>2, <1>3 DEF UmaskRestored
<1>5. MaskIsOwn'
  BY <1>2, <1>3 DEF MaskIsOwn
<1>6. QED
  BY <1>4, <1>5

\* While the windows are apart, every step leaves the umask right.
LEMMA NextUmask ==
    TypeOK /\ UmaskRestored /\ MaskIsOwn /\ WindowsApart' /\ [Next]_vars
        => UmaskRestored' /\ MaskIsOwn'
<1> SUFFICES ASSUME TypeOK, UmaskRestored, MaskIsOwn, WindowsApart', [Next]_vars
             PROVE  UmaskRestored' /\ MaskIsOwn'
  OBVIOUS
<1>1. CASE UNCHANGED vars
  BY <1>1 DEF vars, UmaskRestored, MaskIsOwn
<1>2. audits \in [Audits -> Audit]
  BY DEF TypeOK, Audit
<1>3. ASSUME NEW a \in Audits, NEW finished \in BOOLEAN,
             Begin(a) \/ gatherSSHHardening(a) \/ gatherFirewall(a, finished)
             \/ gatherFiles(a, finished)
      PROVE  UmaskRestored' /\ MaskIsOwn'
  <2>1. CASE Begin(a)
    BY <2>1, ProbeKeepsUmask DEF Begin
  <2>2. CASE gatherSSHHardening(a)
    BY <2>2, ProbeKeepsUmask DEF gatherSSHHardening
  <2>3. CASE gatherFirewall(a, finished)
    BY <2>3, ProbeKeepsUmask DEF gatherFirewall
  <2>4. CASE gatherFiles(a, finished)
    BY <2>4, ProbeKeepsUmask DEF gatherFiles
  <2>5. QED
    BY <1>3, <2>1, <2>2, <2>3, <2>4
<1>4. ASSUME NEW a \in Audits, ClearUmask(a)
      PROVE  UmaskRestored' /\ MaskIsOwn'
  <2>1. /\ audits'[a].pc = "restore" /\ audits'[a].mask = umask
        /\ \A b \in Audits \ {a} : audits'[b] = audits[b]
    BY <1>2, <1>4 DEF ClearUmask, Audit
  <2>2. \A b \in Audits \ {a} : audits[b].pc # "restore"
    BY <2>1 DEF WindowsApart
  <2>3. umask = ownUmask
    BY <1>4, <2>2 DEF ClearUmask, UmaskRestored
  <2>4. UmaskRestored'
    BY <2>1 DEF UmaskRestored
  <2>5. MaskIsOwn'
    BY <1>4, <2>1, <2>3 DEF MaskIsOwn, ClearUmask
  <2>6. QED
    BY <2>4, <2>5
<1>5. ASSUME NEW a \in Audits, RestoreUmask(a)
      PROVE  UmaskRestored' /\ MaskIsOwn'
  <2>1. audits[a].mask = ownUmask
    BY <1>5 DEF RestoreUmask, MaskIsOwn
  <2>2. /\ audits'[a].pc = "policy" /\ audits'[a].out.umask = audits[a].mask
        /\ \A b \in Audits \ {a} : audits'[b] = audits[b]
    BY <1>2, <1>5 DEF RestoreUmask, Audit, Output
  <2>3. UmaskRestored'
    BY <1>5, <2>1 DEF RestoreUmask, UmaskRestored
  <2>4. MaskIsOwn'
    BY <1>5, <2>1, <2>2 DEF RestoreUmask, MaskIsOwn
  <2>5. QED
    BY <2>3, <2>4
<1>6. ASSUME NEW a \in Audits, gatherPasswordPolicy(a)
      PROVE  UmaskRestored' /\ MaskIsOwn'
  <2> DEFINE out == [audits[a].out EXCEPT !.passMaxDays = machine.passMaxDays]
  <2>1. out.umask = audits[a].out.umask
    BY <1>2 DEF Audit, Output
  <2> HIDE DEF out
  <2>2. Probe(a, "policy", "score", out)
    BY <1>6 DEF gatherPasswordPolicy, out
  <2>3. QED
    BY <2>1, <2>2, ProbeKeepsUmask
<1>7. ASSUME NEW a \in Audits, Score(a)
      PROVE  UmaskRestored' /\ MaskIsOwn'
  <2> DEFINE score == computeSecurityScore(audits[a].out)
             out == [audits[a].out EXCEPT !.score = score]
  <2> HIDE DEF score
  <2>1. out.umask = audits[a].out.umask
    BY <1>2 DEF Audit, Output
  <2> HIDE DEF out
  <2>2. Probe(a, "score", "done", out)
    BY <1>7 DEF Score, out, score
  <2>3. QED
    BY <2>1, <2>2, ProbeKeepsUmask
<1>8. ASSUME NEW a \in Audits, Answered(a)
      PROVE  UmaskRestored' /\ MaskIsOwn'
  <2>1. /\ audits'[a].pc = "idle"
        /\ \A b \in Audits \ {a} : audits'[b] = audits[b]
    BY <1>2, <1>8 DEF Answered, Idle
  <2>2. UmaskRestored'
    BY <1>8, <2>1 DEF Answered, UmaskRestored
  <2>3. MaskIsOwn'
    BY <1>8, <2>1 DEF Answered, MaskIsOwn
  <2>4. QED
    BY <2>2, <2>3
<1>9. QED
  BY <1>1, <1>3, <1>4, <1>5, <1>6, <1>7, <1>8, Zenon DEF Next

\* The umask and what the audits know of it, while the windows are apart.
LEMMA UmaskInvariant ==
    Spec /\ []WindowsApart => [](UmaskRestored /\ MaskIsOwn)
<1>1. Init => UmaskRestored /\ MaskIsOwn
  BY DEF Init, Idle, UmaskRestored, MaskIsOwn
<1>2. QED
  BY <1>1, NextUmask, AuditTypeCorrect, PTL DEF Spec

\* As long as no two audits are between Umask(0) and Umask(mask) at once, and
\* however they interleave otherwise, the process keeps its umask outside the
\* system calls ...
THEOREM UmaskIsKept == Spec /\ []WindowsApart => []UmaskRestored
  BY UmaskInvariant, PTL

\* ... and every answer tells it right.
THEOREM UmaskIsTold == Spec /\ []WindowsApart => []AuditTellsUmask
<1>1. MaskIsOwn => AuditTellsUmask
  BY DEF MaskIsOwn, AuditTellsUmask
<1>2. QED
  BY <1>1, UmaskInvariant, PTL

\* One audit at a time is enough.
COROLLARY SoleAudit ==
    ASSUME \A a, b \in Audits : a = b
    PROVE  Spec => []UmaskRestored /\ []AuditTellsUmask
<1>1. WindowsApart
  BY DEF WindowsApart
<1>2. []WindowsApart
  BY <1>1, PTL
<1>3. QED
  BY <1>2, UmaskIsKept, UmaskIsTold, PTL

=============================================================================
