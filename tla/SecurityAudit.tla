--------------------------- MODULE SecurityAudit ---------------------------
(***************************************************************************)
(* get_security_audit (tools/security_audit.go), with several calls of it  *)
(* in flight: each audit probes the machine step by step and computes a    *)
(* score.  All audits share one piece of process-wide state, the umask,    *)
(* which gatherUmask can only read by setting it to zero and back.         *)
(*                                                                         *)
(* The machine is what the probes look at: whether iptables and nft print  *)
(* anything, what ufw says, the two sshd settings the score depends on,    *)
(* whether there are more than ten SUID binaries or any world-writable     *)
(* file, and PASS_MAX_DAYS.  A umask is its four-digit octal text.         *)
(***************************************************************************)
EXTENDS Integers, Sequences, FiniteSetsExt

CONSTANTS
    Audits,     \* the calls that can be in flight at once
    Machines,   \* the machines an audit may run on
    Umasks      \* the umasks the server may have been started with

Keys == {"permitrootlogin", "passwordauthentication"}

Settings == {"yes", "no", "absent"}

\* A line of sshd_config: a setting, or an Include of a drop-in file, which
\* holds settings only (the nesting of Includes is bounded by one).
SetLine == [key : Keys, val : {"yes", "no"}]

IsInclude(line) == line.key = "include"

ASSUME MachinesAssumption ==
    /\ Umasks \subseteq STRING
    /\ \A m \in Machines :
        /\ m.iptables \in BOOLEAN /\ m.nftables \in BOOLEAN
        /\ m.ufw \in {"none", "active", "inactive"}
        /\ m.sshdPresent \in BOOLEAN
        /\ Len(m.sshd) \in Nat /\ DOMAIN m.sshd = 1..Len(m.sshd)
        /\ \A i \in DOMAIN m.sshd :
               IF IsInclude(m.sshd[i]) THEN m.sshd[i].val \in Seq(SetLine)
                                       ELSE m.sshd[i] \in SetLine
        /\ m.manySuid \in BOOLEAN /\ m.worldWritable \in BOOLEAN
        /\ m.passMaxDays \in {"absent", "garbage", "upTo90", "over90"}

VARIABLES
    machine,    \* the machine, fixed
    ownUmask,   \* the umask the process was started with, fixed
    umask,      \* the umask of the process now
    audits      \* audits[a]: the goroutine of call a

vars == <<machine, ownUmask, umask, audits>>

-----------------------------------------------------------------------------
(* The probes.                                                             *)

\* A ufw status counts as active if it contains the word, and "inactive" does.
FirewallActive(m) == m.iptables \/ m.nftables \/ m.ufw # "none"

Unset == [k \in Keys |-> "absent"]

\* A line that is no Include sets its own key.
SetValue(line) == [Unset EXCEPT ![line.key] = line.val]

\* The lines are applied in order: a later value replaces an earlier one.
InOrder(results) == [k \in Keys |->
    LET setting == {i \in DOMAIN results : results[i][k] # "absent"}
    IN IF setting = {} THEN "absent" ELSE results[Max(setting)][k]]

\* An Include copies whatever the drop-in file sets over the result so far.
ParseLine(line) ==
    IF IsInclude(line) THEN InOrder([i \in DOMAIN line.val |-> SetValue(line.val[i])])
    ELSE SetValue(line)

parseSSHDConfig(lines) == InOrder([i \in DOMAIN lines |-> ParseLine(lines[i])])

\* The deductions a finished output leads to.
BadRoot(out) == \/ out.ssh["permitrootlogin"] = "yes"
                \/ out.ssh["permitrootlogin"] = "absent" /\ out.sshPresent

BadUmask(out) == out.umask \notin {"0027", "0077"}

BadMaxDays(out) == out.passMaxDays # "upTo90"

Deduct(condition, points) == IF condition THEN points ELSE 0

\* Mutant of computeSecurityScore: a missing firewall is rewarded.
ScoreRewardsNoFirewall(out) ==
    100 - Deduct(out.firewall, 15) - Deduct(BadRoot(out), 20)
        - Deduct(out.ssh["passwordauthentication"] = "yes", 10)
        - Deduct(out.manySuid, 10) - Deduct(out.worldWritable, 10)
        - Deduct(BadUmask(out), 5) - Deduct(BadMaxDays(out), 5)

\* Mutant of computeSecurityScore: an active firewall adds points.
ScoreAddsPoints(out) ==
    100 + Deduct(out.firewall, 15) - Deduct(BadRoot(out), 20)
        - Deduct(out.ssh["passwordauthentication"] = "yes", 10)
        - Deduct(out.manySuid, 10) - Deduct(out.worldWritable, 10)
        - Deduct(BadUmask(out), 5) - Deduct(BadMaxDays(out), 5)

\* The deductions add up to 75: the floor at zero is never reached.
computeSecurityScore(out) ==
    LET score == 100 - Deduct(~out.firewall, 15) - Deduct(BadRoot(out), 20)
                     - Deduct(out.ssh["passwordauthentication"] = "yes", 10)
                     - Deduct(out.manySuid, 10) - Deduct(out.worldWritable, 10)
                     - Deduct(BadUmask(out), 5) - Deduct(BadMaxDays(out), 5)
    IN IF score < 0 THEN 0 ELSE score

-----------------------------------------------------------------------------
(* The audits.                                                             *)

EmptyOut == [firewall |-> FALSE, ssh |-> Unset, sshPresent |-> FALSE,
             manySuid |-> FALSE, worldWritable |-> FALSE, umask |-> "none",
             passMaxDays |-> "absent", score |-> 0]

Idle == [pc |-> "idle", mask |-> "none", out |-> EmptyOut]

Init ==
    /\ machine \in Machines
    /\ ownUmask \in Umasks /\ umask = ownUmask
    /\ audits = [a \in Audits |-> Idle]

\* Step from pc to next, with the fields of the output that change.
Probe(a, pc, next, out) ==
    /\ audits[a].pc = pc
    /\ audits' = [audits EXCEPT ![a].pc = next, ![a].out = out]
    /\ UNCHANGED <<machine, ownUmask, umask>>

Begin(a) == Probe(a, "idle", "firewall", EmptyOut)

\* The three commands fail when the context is done.
gatherFirewall(a, finished) ==
    Probe(a, "firewall", "ssh",
          [audits[a].out EXCEPT !.firewall = finished /\ FirewallActive(machine)])

gatherSSHHardening(a) ==
    Probe(a, "ssh", "files",
          IF machine.sshdPresent
          THEN [audits[a].out EXCEPT !.sshPresent = TRUE,
                                     !.ssh = parseSSHDConfig(machine.sshd)]
          ELSE audits[a].out)

\* Both find commands; one that is cut off by the deadline has found nothing.
gatherFiles(a, finished) ==
    Probe(a, "files", "umask",
          [audits[a].out EXCEPT
              !.manySuid = finished /\ machine.manySuid,
              !.worldWritable = finished /\ machine.worldWritable])

\* mask := syscall.Umask(0)
ClearUmask(a) ==
    /\ audits[a].pc = "umask"
    /\ audits' = [audits EXCEPT ![a].pc = "restore", ![a].mask = umask]
    /\ umask' = "0000"
    /\ UNCHANGED <<machine, ownUmask>>

\* Mutant of RestoreUmask: the second system call is forgotten.
RestoreUmaskNot(a) ==
    Probe(a, "restore", "policy",
          [audits[a].out EXCEPT !.umask = audits[a].mask])

\* Mutant of RestoreUmask: the result of the second call is reported.
RestoreUmaskReportsIt(a) ==
    /\ audits[a].pc = "restore"
    /\ umask' = audits[a].mask
    /\ audits' = [audits EXCEPT ![a].pc = "policy", ![a].out.umask = umask]
    /\ UNCHANGED <<machine, ownUmask>>

\* syscall.Umask(mask)
RestoreUmask(a) ==
    /\ audits[a].pc = "restore"
    /\ umask' = audits[a].mask
    /\ audits' = [audits EXCEPT ![a].pc = "policy",
                                ![a].out.umask = audits[a].mask]
    /\ UNCHANGED <<machine, ownUmask>>

gatherPasswordPolicy(a) ==
    Probe(a, "policy", "score",
          [audits[a].out EXCEPT !.passMaxDays = machine.passMaxDays])

Score(a) ==
    Probe(a, "score", "done",
          [audits[a].out EXCEPT !.score = computeSecurityScore(audits[a].out)])

Answered(a) ==
    /\ audits[a].pc = "done"
    /\ audits' = [audits EXCEPT ![a] = Idle]
    /\ UNCHANGED <<machine, ownUmask, umask>>

Next == \E a \in Audits :
    \/ Begin(a) \/ gatherSSHHardening(a)
    \/ \E finished \in BOOLEAN : gatherFirewall(a, finished)
                                    \/ gatherFiles(a, finished)
    \/ ClearUmask(a) \/ RestoreUmask(a) \/ gatherPasswordPolicy(a)
    \/ Score(a) \/ Answered(a)

Spec == Init /\ [][Next]_vars

-----------------------------------------------------------------------------
Steps == {"idle", "firewall", "ssh", "files", "umask", "restore", "policy",
          "score", "done"}

Masks == Umasks \cup {"0000"}

Output == [firewall : BOOLEAN, ssh : [Keys -> Settings], sshPresent : BOOLEAN,
           manySuid : BOOLEAN, worldWritable : BOOLEAN,
           umask : Masks \cup {"none"},
           passMaxDays : {"absent", "garbage", "upTo90", "over90"},
           score : 0..100]

TypeOK ==
    /\ machine \in Machines /\ ownUmask \in Umasks /\ umask \in Masks
    /\ audits \in [Audits -> [pc : Steps, mask : Masks \cup {"none"}, out : Output]]

\* "Read-only but heavy" (docs/tools.md, get_security_audit): outside the two
\* system calls of gatherUmask the process has the umask it was started with.
UmaskRestored ==
    (\A a \in Audits : audits[a].pc # "restore") => umask = ownUmask

\* The answer tells the umask the process was started with.
AuditTellsUmask ==
    \A a \in Audits : audits[a].pc = "done" => audits[a].out.umask = ownUmask

\* An answer without any finding scores 100, and fixing a single finding never
\* costs points.
ScoreRewardsHardening ==
    \A a \in Audits : audits[a].pc = "done" =>
        LET out == audits[a].out
            better == {[out EXCEPT !.firewall = TRUE],
                       [out EXCEPT !.ssh["permitrootlogin"] = "no"],
                       [out EXCEPT !.ssh["passwordauthentication"] = "no"],
                       [out EXCEPT !.manySuid = FALSE],
                       [out EXCEPT !.worldWritable = FALSE],
                       [out EXCEPT !.umask = "0077"],
                       [out EXCEPT !.passMaxDays = "upTo90"]}
        IN /\ \A b \in better : computeSecurityScore(b) >= out.score
           /\ (\A b \in better : computeSecurityScore(b) = out.score)
                  <=> out.score = 100
=============================================================================
