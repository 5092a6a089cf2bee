-------------------------- MODULE MCSecurityAudit --------------------------
(* Model-checking instance of SecurityAudit: machines that between them set *)
(* off every deduction, sshd configurations with and without a drop-in.     *)
EXTENDS SecurityAudit

Line(key, val) == [key |-> key, val |-> val]

Include(lines) == [key |-> "include", val |-> lines]

Machine(fw, ufw, present, sshd, files, days) ==
    [iptables |-> fw, nftables |-> fw, ufw |-> ufw, sshdPresent |-> present,
     sshd |-> sshd, manySuid |-> files, worldWritable |-> files,
     passMaxDays |-> days]

Hardened == <<Line("permitrootlogin", "no"),
              Line("passwordauthentication", "no")>>

DropInLast == <<Line("passwordauthentication", "no"),
                Include(<<Line("passwordauthentication", "yes")>>)>>

MCMachines ==
    {Machine(TRUE, "none", TRUE, Hardened, FALSE, "upTo90"),
     Machine(FALSE, "inactive", TRUE, <<>>, TRUE, "over90"),
     Machine(FALSE, "active", FALSE, <<>>, FALSE, "garbage"),
     Machine(FALSE, "none", TRUE, DropInLast, TRUE, "absent")}

MCOneMachine == {Machine(TRUE, "none", TRUE, Hardened, FALSE, "upTo90")}
=============================================================================
