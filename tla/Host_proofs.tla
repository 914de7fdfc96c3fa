------------------------------- MODULE Host_proofs -------------------------------
(***************************************************************************)
(* Theorems of the two components whose state outlives the program: the     *)
(* routes, resolver and records of Helper, and the configuration file and   *)
(* keyring of Profiles.                                                     *)
(*                                                                          *)
(* Helper: the first theorems hold whatever may fail, be killed, ignored or *)
(* rebooted; the last ones, of what a teardown undoes, on a machine that    *)
(* keeps to OrdinaryMachine.  Profiles: the types, however many windows     *)
(* there are and whatever the keyring does, and, for one window and a       *)
(* keyring that grants what it is asked, that passwords and profiles belong *)
(* together and that the next start shows what the window shows.            *)
(***************************************************************************)
EXTENDS Helper, Profiles, TLAPS, SequenceTheorems

-----------------------------------------------------------------------------
(* The inductive invariant.                                                 *)

\* The tunnel is what the profile asked for.
AsAsked ==
    /\ device
    /\ defaulted <=> want.gw
    /\ want.gw /\ want.server # NoServer => want.server \in bypass

\* What the steps of setup that are done have left, and who runs the helper.
Ready ==
    /\ defaulted => device
    /\ session \in {"none", "dialog", "up"} => pc = "idle"
    /\ pc = "unpin" => session # "setup"
    /\ pc \in {"configure", "pin", "record", "default"} => device /\ ~defaulted
    /\ pc \in {"pin", "record"} => want.server # NoServer
    /\ pc \in {"pin", "record", "default"} => want.gw
    /\ pc \in {"record", "default"} /\ want.server # NoServer => want.server \in bypass
    /\ pc \in {"resolved", "backup", "prepend"} => AsAsked
    /\ session = "up" => AsAsked

IInv == TypeOK /\ Ready

LEMMA InitHolds == Init => IInv
<1> SUFFICES ASSUME Init
             PROVE  IInv
  OBVIOUS
<1>1. want \in Wants
  BY DEF Init, Wants
<1>2. TypeOK
  BY <1>1 DEF Init, TypeOK
<1>3. Ready
  BY DEF Init, Ready, AsAsked
<1>4. QED
  BY <1>2, <1>3 DEF IInv

-----------------------------------------------------------------------------
(* The parts of a step.                                                     *)

LEMMA ExitShape ==
    ASSUME NEW how, Exit(how)
    PROVE  /\ pc' = "idle" /\ last' = how /\ want' = want /\ restore' = restore
           /\ machine' = machine
           /\ session = "gone" => session' = "gone"
           /\ session # "gone" /\ how = "setup" => session' = "up"
           /\ session # "gone" /\ how # "setup" => session' = "none"
  BY DEF Exit

LEMMA GotoShape ==
    ASSUME NEW step, Goto(step)
    PROVE  pc' = step /\ last' = last /\ want' = want /\ restore' = restore
           /\ machine' = machine
           /\ session' = session
  BY DEF Goto, caller

\* A command that ends the helper without a tunnel and changes nothing.
LEMMA EndsHelper ==
    ASSUME IInv, NEW how \in {"failed", "denied", "killed"}, Exit(how),
           UNCHANGED <<onLink, pinned, dnsFile>>
    PROVE  IInv'
<1>1. TypeOK'
  BY ExitShape DEF IInv, TypeOK, onLink, pinned, dnsFile
<1>2. session' \in {"gone", "none"} /\ pc' = "idle"
  BY ExitShape DEF IInv, TypeOK
<1>3. Ready'
  BY <1>2 DEF IInv, Ready, onLink
<1>4. QED
  BY <1>1, <1>3 DEF IInv

\* The end of setup.
LEMMA SetUp ==
    ASSUME IInv, Exit("setup"), AsAsked', (defaulted => device)',
           bypass' \subseteq machine.servers, record' \in machine.servers \cup {NoServer},
           device' \in BOOLEAN, defaulted' \in BOOLEAN, linkdns' \in BOOLEAN,
           conf' \in {"user", "vpn"}, backup' \in {"none", "user", "vpn"}
    PROVE  IInv'
<1>1. /\ pc' = "idle" /\ last' = "setup" /\ want' = want /\ restore' = restore
      /\ machine' = machine
      /\ session' \in {"gone", "up"}
  BY ExitShape DEF IInv, TypeOK
<1>2. TypeOK'
  BY <1>1 DEF IInv, TypeOK
<1>3. Ready'
  BY <1>1 DEF Ready
<1>4. QED
  BY <1>2, <1>3 DEF IInv

\* After the routes.
LEMMA RoutesSet ==
    ASSUME IInv, AfterDefault, pc \in SetupSteps, device', device, defaulted' \in BOOLEAN,
           AsAsked', UNCHANGED <<linkdns, pinned, dnsFile>>
    PROVE  IInv'
<1>1. CASE want.dns
  <2>1. Goto("resolved")
    BY <1>1 DEF AfterDefault
  <2>2. TypeOK'
    BY <2>1, GotoShape DEF IInv, TypeOK, pinned, dnsFile, SetupSteps, AsAsked
  <2>3. session \notin {"none", "dialog", "up"}
    BY DEF IInv, Ready, SetupSteps
  <2>4. Ready'
    BY <2>1, <2>3, GotoShape DEF Ready
  <2>5. QED
    BY <2>2, <2>4 DEF IInv
<1>2. CASE ~want.dns
  <2>1. Exit("setup")
    BY <1>2 DEF AfterDefault
  <2>2. QED
    BY <2>1, SetUp DEF IInv, TypeOK, pinned, dnsFile
<1>3. QED
  BY <1>1, <1>2

-----------------------------------------------------------------------------
(* cmd_setup.                                                               *)

LEMMA StaleHolds == IInv /\ Stale => IInv'
<1> SUFFICES ASSUME IInv, Stale
             PROVE  IInv'
  OBVIOUS
<1>1. /\ pc = "stale" /\ pc' = "add" /\ last' = last /\ want' = want
      /\ restore' = restore /\ session' = session /\ machine' = machine
      /\ UNCHANGED <<bypass, record, conf, backup>>
  BY GotoShape DEF Stale, pinned, dnsFile
<1>2. \/ device' = FALSE /\ defaulted' = FALSE /\ linkdns' = FALSE
      \/ UNCHANGED <<device, defaulted, linkdns>>
  BY DEF Stale, LinkGone, onLink
<1>3. device' \in BOOLEAN /\ defaulted' \in BOOLEAN /\ linkdns' \in BOOLEAN
  BY <1>2 DEF IInv, TypeOK
<1>4. TypeOK'
  BY <1>1, <1>3 DEF IInv, TypeOK, SetupSteps
<1>5. Ready'
  BY <1>1, <1>2 DEF IInv, Ready
<1>6. QED
  BY <1>4, <1>5 DEF IInv

LEMMA AddHolds == IInv /\ Add => IInv'
<1> SUFFICES ASSUME IInv, Add
             PROVE  IInv'
  OBVIOUS
<1>1. CASE /\ ~device /\ device' = TRUE /\ Goto("configure")
           /\ UNCHANGED <<defaulted, linkdns, pinned, dnsFile>>
  <2>1. TypeOK'
    BY <1>1, GotoShape DEF IInv, TypeOK, pinned, dnsFile, SetupSteps
  <2>2. session \notin {"none", "dialog", "up"}
    BY DEF IInv, Ready, Add
  <2>3. Ready'
    BY <1>1, <2>2, GotoShape DEF IInv, Ready, pinned
  <2>4. QED
    BY <2>1, <2>3 DEF IInv
<1>2. CASE Exit("failed") /\ UNCHANGED <<onLink, pinned, dnsFile>>
  BY <1>2, EndsHelper
<1>3. QED
  BY <1>1, <1>2 DEF Add, Fails

\* A step of setup that goes on, none of them the first two.
LEMMA StepTyped ==
    ASSUME IInv, NEW step \in SetupSteps, Goto(step), UNCHANGED <<device, linkdns, dnsFile>>,
           defaulted' \in BOOLEAN, bypass' \subseteq machine.servers,
           record' \in machine.servers \cup {NoServer}
    PROVE  TypeOK'
  BY GotoShape DEF IInv, TypeOK, dnsFile

LEMMA ConfigureHolds == IInv /\ Configure => IInv'
<1> SUFFICES ASSUME IInv, Configure
             PROVE  IInv'
  OBVIOUS
<1> DEFINE step == IF want.server = NoServer THEN "default" ELSE "pin"
<1>1. pc = "configure" /\ pc \in SetupSteps /\ device /\ ~defaulted
      /\ session \notin {"none", "dialog", "up"}
  BY DEF IInv, Ready, Configure, SetupSteps
<1>2. CASE ~want.gw /\ AfterDefault /\ UNCHANGED <<onLink, pinned, dnsFile>>
  <2>1. want' = want
    BY <1>2, ExitShape, GotoShape DEF AfterDefault
  <2>2. AsAsked'
    BY <1>1, <1>2, <2>1 DEF AsAsked, onLink
  <2>3. QED
    BY <1>1, <1>2, <2>2, RoutesSet DEF onLink, IInv, TypeOK
<1>3. CASE want.gw /\ Goto(step) /\ UNCHANGED <<onLink, pinned, dnsFile>>
  <2>1. step \in SetupSteps
    BY DEF SetupSteps
  <2>2. TypeOK'
    BY <1>3, <2>1, StepTyped DEF IInv, TypeOK, onLink, pinned
  <2>3. Ready'
    BY <1>1, <1>3, GotoShape DEF IInv, Ready, onLink
  <2>4. QED
    BY <2>2, <2>3 DEF IInv
<1>4. CASE Fails("configure")
  BY <1>4, EndsHelper DEF Fails
<1>5. QED
  BY <1>2, <1>3, <1>4 DEF Configure

LEMMA PinHolds == IInv /\ Pin => IInv'
<1> SUFFICES ASSUME IInv, Pin
             PROVE  IInv'
  OBVIOUS
<1>1. /\ pc = "pin" /\ device /\ ~defaulted /\ want.gw /\ want.server # NoServer
      /\ session \notin {"none", "dialog", "up"}
  BY DEF IInv, Ready, Pin
<1>2. CASE /\ bypass' = bypass \cup {want.server} /\ Goto("record")
           /\ UNCHANGED <<record, onLink, dnsFile>>
  <2>1. want.server \in machine.servers
    BY <1>1 DEF IInv, TypeOK, Wants
  <2>2. TypeOK'
    BY <1>2, <2>1, StepTyped DEF IInv, TypeOK, onLink, SetupSteps
  <2>3. Ready'
    BY <1>1, <1>2, GotoShape DEF IInv, Ready, onLink
  <2>4. QED
    BY <2>2, <2>3 DEF IInv
<1>3. CASE Fails("pin")
  BY <1>3, EndsHelper DEF Fails
<1>4. QED
  BY <1>2, <1>3 DEF Pin

LEMMA RecordHolds == IInv /\ Record => IInv'
<1> SUFFICES ASSUME IInv, Record
             PROVE  IInv'
  OBVIOUS
<1>1. /\ pc = "record" /\ device /\ ~defaulted /\ want.gw /\ want.server # NoServer
      /\ want.server \in bypass /\ session \notin {"none", "dialog", "up"}
  BY DEF IInv, Ready, Record
<1>2. want.server \in machine.servers
  BY <1>1 DEF IInv, TypeOK, Wants
<1>3. TypeOK'
  BY <1>2, StepTyped DEF IInv, TypeOK, Record, onLink, SetupSteps
<1>4. Ready'
  BY <1>1, GotoShape DEF IInv, Ready, Record, onLink
<1>5. QED
  BY <1>3, <1>4 DEF IInv

LEMMA DefaultHolds == IInv /\ Default => IInv'
<1> SUFFICES ASSUME IInv, Default
             PROVE  IInv'
  OBVIOUS
<1>1. /\ pc = "default" /\ pc \in SetupSteps /\ device /\ want.gw
      /\ want.server # NoServer => want.server \in bypass
  BY DEF IInv, Ready, Default, SetupSteps
<1>2. CASE /\ defaulted' = TRUE /\ AfterDefault
           /\ UNCHANGED <<device, linkdns, pinned, dnsFile>>
  <2>1. want' = want
    BY <1>2, ExitShape, GotoShape DEF AfterDefault
  <2>2. AsAsked'
    BY <1>1, <1>2, <2>1 DEF AsAsked, pinned
  <2>3. QED
    BY <1>1, <1>2, <2>2, RoutesSet
<1>3. CASE Fails("default")
  BY <1>3, EndsHelper DEF Fails
<1>4. QED
  BY <1>2, <1>3 DEF Default

LEMMA ResolvedHolds == IInv /\ Resolved => IInv'
<1> SUFFICES ASSUME IInv, Resolved
             PROVE  IInv'
  OBVIOUS
<1>1. pc = "resolved" /\ AsAsked /\ session \notin {"none", "dialog", "up"}
      /\ UNCHANGED <<device, defaulted, bypass, record, conf, backup>>
  BY DEF IInv, Ready, Resolved, pinned, dnsFile
<1>2. linkdns' \in BOOLEAN
  BY DEF Resolved
<1>3. CASE Exit("setup")
  <2>1. AsAsked'
    BY <1>1, <1>3, ExitShape DEF AsAsked
  <2>2. QED
    BY <1>1, <1>2, <1>3, <2>1, SetUp DEF IInv, TypeOK, Ready
<1>4. CASE Goto("backup")
  <2>1. TypeOK'
    BY <1>1, <1>2, <1>4, GotoShape DEF IInv, TypeOK, SetupSteps
  <2>2. AsAsked'
    BY <1>1, <1>4, GotoShape DEF AsAsked
  <2>3. Ready'
    BY <1>1, <1>4, <2>2, GotoShape DEF IInv, Ready
  <2>4. QED
    BY <2>1, <2>3 DEF IInv
<1>5. QED
  BY <1>3, <1>4 DEF Resolved

LEMMA BackupHolds == IInv /\ Backup => IInv'
<1> SUFFICES ASSUME IInv, Backup
             PROVE  IInv'
  OBVIOUS
<1>1. pc = "backup" /\ AsAsked /\ session \notin {"none", "dialog", "up"}
      /\ UNCHANGED <<device, defaulted, linkdns, bypass, record, conf>>
  BY DEF IInv, Ready, Backup, onLink, pinned
<1>2. backup' \in {"none", "user", "vpn"}
  BY DEF Backup, IInv, TypeOK
<1>3. CASE Exit("setup")
  <2>1. AsAsked'
    BY <1>1, <1>3, ExitShape DEF AsAsked
  <2>2. QED
    BY <1>1, <1>2, <1>3, <2>1, SetUp DEF IInv, TypeOK, Ready
<1>4. CASE Goto("prepend")
  <2>1. TypeOK'
    BY <1>1, <1>2, <1>4, GotoShape DEF IInv, TypeOK, SetupSteps
  <2>2. AsAsked'
    BY <1>1, <1>4, GotoShape DEF AsAsked
  <2>3. Ready'
    BY <1>1, <1>4, <2>2, GotoShape DEF IInv, Ready
  <2>4. QED
    BY <2>1, <2>3 DEF IInv
<1>5. QED
  BY <1>3, <1>4 DEF Backup

LEMMA PrependHolds == IInv /\ Prepend => IInv'
<1> SUFFICES ASSUME IInv, Prepend
             PROVE  IInv'
  OBVIOUS
<1>1. pc = "prepend" /\ AsAsked /\ Exit("setup")
      /\ UNCHANGED <<device, defaulted, linkdns, bypass, record, backup>>
  BY DEF IInv, Ready, Prepend, onLink, pinned
<1>2. conf' \in {"user", "vpn"}
  BY DEF Prepend, IInv, TypeOK
<1>3. AsAsked'
  BY <1>1, ExitShape DEF AsAsked
<1>4. QED
  BY <1>1, <1>2, <1>3, SetUp DEF IInv, TypeOK, Ready

-----------------------------------------------------------------------------
(* cmd_teardown.                                                            *)

\* A teardown runs with no tunnel up, and its steps keep the invariant as long
\* as they take away no device alone.
LEMMA TearsDown ==
    ASSUME IInv, pc \in TeardownSteps,
           \/ Exit("teardown")
           \/ \E step \in TeardownSteps \ {"unpin"} : Goto(step),
           device' \in BOOLEAN, defaulted' \in BOOLEAN, linkdns' \in BOOLEAN,
           (defaulted => device)',
           bypass' \subseteq machine.servers, record' \in machine.servers \cup {NoServer},
           conf' \in {"user", "vpn"}, backup' \in {"none", "user", "vpn"}
    PROVE  IInv'
<1>1. session \notin {"none", "dialog", "up"}
  BY DEF IInv, Ready, TeardownSteps
<1>2. CASE Exit("teardown")
  <2>1. session' \in {"gone", "none"} /\ pc' = "idle"
    BY <1>2, ExitShape DEF IInv, TypeOK
  <2>2. TypeOK'
    BY <1>2, ExitShape DEF IInv, TypeOK
  <2>3. Ready'
    BY <2>1 DEF Ready
  <2>4. QED
    BY <2>2, <2>3 DEF IInv
<1>3. ASSUME NEW step \in TeardownSteps \ {"unpin"}, Goto(step)
      PROVE  IInv'
  <2>1. TypeOK'
    BY <1>3, GotoShape DEF IInv, TypeOK
  <2>2. Ready'
    BY <1>1, <1>3, GotoShape DEF Ready, TeardownSteps
  <2>3. QED
    BY <2>1, <2>2 DEF IInv
<1>4. QED
  BY <1>2, <1>3

LEMMA TeardownHolds == IInv /\ cmd_teardown => IInv'
<1> SUFFICES ASSUME IInv, cmd_teardown
             PROVE  IInv'
  OBVIOUS
<1> USE DEF IInv, TypeOK, Ready, onLink, pinned, dnsFile, TeardownSteps
<1>1. CASE Unpin
  BY <1>1, TearsDown DEF Unpin
<1>2. CASE Flush
  <2>1. defaulted' \in BOOLEAN /\ (defaulted => device)'
    <3>1. CASE defaulted' = FALSE
      BY <3>1
    <3>2. CASE UNCHANGED <<device, defaulted>>
      BY <3>2
    <3>3. QED
      BY <1>2, <3>1, <3>2 DEF Flush
  <2>2. Goto("del") /\ pc \in TeardownSteps
    BY <1>2 DEF Flush
  <2>3. UNCHANGED <<device, linkdns, bypass, record, conf, backup>>
    BY <1>2 DEF Flush
  <2>4. QED
    BY <2>1, <2>2, <2>3, TearsDown
<1>3. CASE Del
  <2>1. /\ device' \in BOOLEAN /\ defaulted' \in BOOLEAN /\ linkdns' \in BOOLEAN
        /\ (defaulted => device)'
    <3>1. CASE device' = FALSE /\ defaulted' = FALSE /\ linkdns' = FALSE
      BY <3>1
    <3>2. CASE UNCHANGED <<device, defaulted, linkdns>>
      BY <3>2
    <3>3. QED
      BY <1>3, <3>1, <3>2 DEF Del, LinkGone
  <2>2. Exit("teardown") \/ Goto("revert")
    BY <1>3 DEF Del, AfterDel
  <2>3. pc \in TeardownSteps /\ UNCHANGED <<bypass, record, conf, backup>>
    BY <1>3 DEF Del
  <2>4. QED
    BY <2>1, <2>2, <2>3, TearsDown
<1>4. CASE Revert
  BY <1>4, TearsDown DEF Revert
<1>5. CASE Restore
  BY <1>5, TearsDown DEF Restore
<1>6. QED
  BY <1>1, <1>2, <1>3, <1>4, <1>5 DEF cmd_teardown

-----------------------------------------------------------------------------
(* The GUI, and what ends a helper.                                         *)

LEMMA GuiHolds == IInv /\ Gui => IInv'
<1> SUFFICES ASSUME IInv, Gui
             PROVE  IInv'
  OBVIOUS
<1> USE DEF IInv, TypeOK, Ready, AsAsked, onLink, pinned, dnsFile, Run, SetupSteps,
            TeardownSteps
<1>1. CASE Connect
  BY <1>1 DEF Connect
<1>2. CASE Disconnect
  <2>1. want.dns \in BOOLEAN
    BY DEF Wants
  <2>2. QED
    BY <1>2, <2>1 DEF Disconnect
<1>3. CASE Crash
  BY <1>3 DEF Crash
<1>4. CASE Restart
  BY <1>4 DEF Restart
<1>5. CASE CleanUp
  BY <1>5 DEF CleanUp
<1>6. CASE Ignore
  BY <1>6 DEF Ignore
<1>7. QED
  BY <1>1, <1>2, <1>3, <1>4, <1>5, <1>6 DEF Gui

LEMMA RebootHolds == IInv /\ Reboot => IInv'
<1> SUFFICES ASSUME IInv, Reboot
             PROVE  IInv'
  OBVIOUS
<1>1. TypeOK'
  BY DEF IInv, TypeOK, Reboot, LinkGone
<1>2. Ready'
  BY DEF Ready, Reboot, LinkGone
<1>3. QED
  BY <1>1, <1>2 DEF IInv

LEMMA Inductive == IInv /\ [Next]_vars => IInv'
<1> SUFFICES ASSUME IInv, [Next]_vars
             PROVE  IInv'
  OBVIOUS
<1>1. CASE cmd_setup
  BY <1>1, StaleHolds, AddHolds, ConfigureHolds, PinHolds, RecordHolds, DefaultHolds,
     ResolvedHolds, BackupHolds, PrependHolds DEF cmd_setup
<1>2. CASE cmd_teardown
  BY <1>2, TeardownHolds
<1>3. CASE Gui
  BY <1>3, GuiHolds
<1>4. CASE Denied
  BY <1>4, EndsHelper DEF Denied
<1>5. CASE Killed
  BY <1>5, EndsHelper DEF Killed
<1>6. CASE Reboot
  BY <1>6, RebootHolds
<1>7. CASE UNCHANGED vars
  BY <1>7 DEF vars, IInv, TypeOK, Ready, AsAsked
<1>8. QED
  BY <1>1, <1>2, <1>3, <1>4, <1>5, <1>6, <1>7 DEF Next

-----------------------------------------------------------------------------
(* The theorems.                                                            *)

THEOREM IInvHolds == Spec => []IInv
<1>1. IInv /\ [Next]_vars => IInv'
  BY Inductive
<1>2. QED
  BY InitHolds, <1>1, PTL DEF Spec

\* Every variable keeps to its type; a bypass is installed for a server only.
THEOREM TypesKept == Spec => []TypeOK
<1>1. IInv => TypeOK
  BY DEF IInv
<1>2. QED
  BY IInvHolds, <1>1, PTL

\* A tunnel that is up is what its profile asked for, whatever failed, crashed,
\* was killed, was left behind or rebooted before (helper.rs 346-449).
THEOREM TunnelAsAsked == Spec => []UpAsAsked
<1>1. IInv => UpAsAsked
  BY DEF IInv, Ready, UpAsAsked, AsAsked
<1>2. QED
  BY IInvHolds, <1>1, PTL

\* What a command of the helper or the GUI does to the routes, other than to
\* install the default route or to remove the bypass.
LEMMA RoutesGrow ==
    ASSUME [Next]_vars, ~Default, ~Unpin, defaulted', want' = want
    PROVE  defaulted /\ bypass \subseteq bypass'
<1> USE DEF onLink, pinned, dnsFile, LinkGone
<1>1. cmd_setup => defaulted /\ bypass \subseteq bypass'
  BY DEF cmd_setup, Stale, Add, Fails, Configure, Pin, Record, Resolved, Backup, Prepend
<1>2. cmd_teardown => defaulted /\ bypass \subseteq bypass'
  BY DEF cmd_teardown, Flush, Del, Revert, Restore
<1>3. Gui => defaulted /\ bypass \subseteq bypass'
  BY DEF Gui, Connect, Disconnect, Crash, Restart, CleanUp, Ignore
<1>4. Denied \/ Killed \/ Reboot \/ UNCHANGED vars => defaulted /\ bypass \subseteq bypass'
  BY DEF Denied, Killed, Reboot, vars
<1>5. QED
  BY <1>1, <1>2, <1>3, <1>4 DEF Next

\* Nothing but the teardown of a session that is over makes a tunnel swallow its
\* own transport, whatever failed, was killed or was left behind before
\* (helper.rs 407-430, 487-490).
THEOREM BypassBeforeDefault == Spec => BypassFirst
<1> DEFINE A == want' = want /\ Blackholed'
                => Blackholed \/ (pc = "unpin" /\ session \notin {"setup", "up"})
<1>1. IInv /\ [Next]_vars => [A]_vars
  <2> SUFFICES ASSUME IInv, [Next]_vars, want' = want, Blackholed', ~Blackholed
               PROVE  pc = "unpin" /\ session \notin {"setup", "up"}
    OBVIOUS
  <2>1. ~Default
    BY DEF Default, IInv, Ready, Blackholed, pinned, onLink, Fails
  <2>2. CASE Unpin
    BY <2>2 DEF Unpin, IInv, Ready
  <2>3. CASE ~Unpin
    BY <2>1, <2>3, RoutesGrow DEF Blackholed
  <2>4. QED
    BY <2>2, <2>3
<1>2. QED
  BY IInvHolds, <1>1, PTL DEF Spec, BypassFirst

-----------------------------------------------------------------------------
(* What a teardown undoes.                                                  *)

LEMMA MachineStays == [Next]_vars => machine' = machine
<1> USE DEF Run
<1>1. cmd_setup => machine' = machine
  BY ExitShape, GotoShape
  DEF cmd_setup, Stale, Add, Fails, AfterDefault, Configure, Pin, Record, Default, Resolved,
      Backup, Prepend
<1>2. cmd_teardown => machine' = machine
  BY ExitShape, GotoShape
  DEF cmd_teardown, Unpin, Flush, AfterDel, Del, Revert, Restore
<1>3. Gui => machine' = machine
  BY DEF Gui, Connect, Disconnect, Crash, Restart, CleanUp, Ignore
<1>4. Denied \/ Killed \/ Reboot => machine' = machine
  BY ExitShape DEF Denied, Killed, Reboot
<1>5. QED
  BY <1>1, <1>2, <1>3, <1>4 DEF Next, vars

LEMMA ReadableStays == [Next]_vars => (Readable' <=> Readable)
  BY MachineStays DEF Readable, Failing

Gone == ~device /\ ~defaulted /\ ~linkdns

\* Where a resolv.conf of the VPN can be: in a tunnel that a teardown will find
\* and restore, or in the last steps of that teardown.
Restorable ==
    \/ pc \in {"revert", "restore"}
    \/ /\ device /\ pc \notin SetupSteps /\ session # "none"
       /\ session = "up" => want.dns
       /\ pc \in TeardownSteps \/ session = "dialog" => restore

\* The user's resolv.conf is in place, or saved and restorable.
Saved ==
    /\ backup \in {"none", "user"}
    /\ conf = "vpn" => backup = "user" /\ Restorable
    /\ pc = "prepend" => backup = "user"
    /\ last = "teardown" => conf = "user"

Undoable ==
    /\ pc # "record" => bypass \subseteq {record}
    /\ pc \in {"resolved", "backup", "prepend"} => want.dns
    /\ pc \in {"flush", "del", "revert", "restore"} => bypass = {}
    /\ pc \in {"revert", "restore"} => Gone
    /\ last = "teardown" => pc = "idle" /\ Gone /\ bypass = {}
    /\ Readable => Saved

LEMMA InitUndoable == Init => Undoable
  BY DEF Init, Undoable, Saved, Gone

\* No setup begins, and none runs, with a resolv.conf of the VPN.
LEMMA OwnConf ==
    ASSUME IInv, Saved
    PROVE  /\ pc \in SetupSteps => conf = "user"
           /\ session = "none" => conf = "user"
           /\ conf = "user" \/ conf = "vpn"
<1>1. pc \in SetupSteps => pc \notin {"revert", "restore"}
  BY DEF SetupSteps
<1>2. session = "none" => pc = "idle"
  BY DEF IInv, Ready
<1>3. QED
  BY <1>1, <1>2 DEF IInv, TypeOK, Saved, Restorable

\* A step of setup before it writes resolv.conf.
LEMMA SetupKeeps ==
    ASSUME IInv, Undoable, pc \in SetupSteps, last' \in {last, "setup", "failed"},
           pc' \in SetupSteps \cup {"idle"},
           pc' # "record" => bypass' \subseteq {record'},
           pc' \in {"resolved", "backup", "prepend"} => want'.dns,
           Readable' => /\ pc' = "prepend" => backup' = "user"
                        /\ backup' \in {"none", "user"} /\ conf' = "user"
    PROVE  Undoable'
<1>1. last # "teardown"
  BY DEF Undoable, SetupSteps
<1>2. Readable' => Saved'
  BY <1>1 DEF Saved
<1>3. QED
  BY <1>1, <1>2 DEF Undoable, SetupSteps

LEMMA DefaultNext ==
    ASSUME AfterDefault
    PROVE  /\ pc' \in {"idle", "resolved"} /\ want' = want
           /\ pc' = "resolved" => want.dns
           /\ last' \in {last, "setup"}
  BY GotoShape, ExitShape DEF AfterDefault

LEMMA SetupUndoable == OrdinaryMachine /\ IInv /\ Undoable /\ cmd_setup => Undoable'
<1> SUFFICES ASSUME OrdinaryMachine, IInv, Undoable, cmd_setup
             PROVE  Undoable'
  OBVIOUS
<1>1. pc \in SetupSteps
  BY DEF cmd_setup, SetupSteps, Stale, Add, Configure, Pin, Record, Default,
         Resolved, Backup, Prepend
<1>2. pc # "record" => bypass \subseteq {record}
  BY DEF Undoable
<1>3. Readable' => Readable /\ backup \in {"none", "user"} /\ conf = "user"
  BY <1>1, OwnConf, ReadableStays DEF Next, Undoable, Saved
<1>4. ASSUME Exit("failed"), UNCHANGED <<pinned, dnsFile>>, pc # "record"
      PROVE  Undoable'
  BY <1>1, <1>2, <1>3, <1>4, ExitShape, SetupKeeps DEF pinned, dnsFile
<1>5. CASE Stale
  BY <1>1, <1>2, <1>3, <1>5, GotoShape, SetupKeeps DEF Stale, pinned, dnsFile, SetupSteps
<1>6. CASE Add
  <2>1. CASE Goto("configure") /\ UNCHANGED <<pinned, dnsFile>>
    BY <1>1, <1>2, <1>3, <1>6, <2>1, GotoShape, SetupKeeps
    DEF Add, pinned, dnsFile, SetupSteps
  <2>2. QED
    BY <1>4, <1>6, <2>1 DEF Add, Fails
<1>7. CASE Configure
  <2>1. CASE AfterDefault /\ UNCHANGED <<pinned, dnsFile>>
    BY <1>1, <1>2, <1>3, <1>7, <2>1, DefaultNext, SetupKeeps
    DEF Configure, pinned, dnsFile, SetupSteps
  <2>2. CASE /\ Goto(IF want.server = NoServer THEN "default" ELSE "pin")
             /\ UNCHANGED <<pinned, dnsFile>>
    BY <1>1, <1>2, <1>3, <1>7, <2>2, GotoShape, SetupKeeps
    DEF Configure, pinned, dnsFile, SetupSteps
  <2>3. QED
    BY <1>4, <1>7, <2>1, <2>2 DEF Configure, Fails
<1>8. CASE Pin
  <2>1. CASE Goto("record") /\ UNCHANGED dnsFile
    BY <1>1, <1>3, <1>8, <2>1, GotoShape, SetupKeeps DEF Pin, dnsFile, SetupSteps
  <2>2. QED
    BY <1>4, <1>8, <2>1 DEF Pin, Fails
<1>9. CASE Record
  <2>1. pc = "record" /\ Goto("default") /\ record' = want.server
        /\ UNCHANGED <<bypass, conf, backup>>
    BY <1>9 DEF Record, OrdinaryMachine, Failing, dnsFile
  <2>2. want.server \in machine.servers
    BY <2>1 DEF IInv, Ready, TypeOK
  <2>3. bypass \subseteq {want.server}
    BY <2>2 DEF OrdinaryMachine, IInv, TypeOK
  <2>4. QED
    BY <1>1, <1>3, <2>1, <2>3, GotoShape, SetupKeeps DEF SetupSteps
<1>10. CASE Default
  <2>1. CASE AfterDefault /\ UNCHANGED <<pinned, dnsFile>>
    BY <1>1, <1>2, <1>3, <1>10, <2>1, DefaultNext, SetupKeeps
    DEF Default, pinned, dnsFile, SetupSteps
  <2>2. QED
    BY <1>4, <1>10, <2>1 DEF Default, Fails
<1>11. CASE Resolved
  <2>1. want.dns /\ pc # "record" /\ UNCHANGED <<bypass, record, conf, backup>>
    BY <1>11 DEF Undoable, Resolved, pinned, dnsFile
  <2>2. pc' \in {"idle", "backup"} /\ last' \in {last, "setup"} /\ want' = want
    BY <1>11, ExitShape, GotoShape DEF Resolved
  <2>3. QED
    BY <1>1, <1>2, <1>3, <2>1, <2>2, SetupKeeps DEF SetupSteps
<1>12. CASE Backup
  <2>1. want.dns /\ pc # "record" /\ UNCHANGED <<bypass, record, conf>>
    BY <1>12 DEF Undoable, Backup, pinned
  <2>2. pc' \in {"idle", "prepend"} /\ last' \in {last, "setup"} /\ want' = want
    BY <1>12, ExitShape, GotoShape DEF Backup
  <2>3. Readable' => backup' \in {"none", "user"} /\ (pc' = "prepend" => backup' = "user")
    BY <1>3, <1>12, ExitShape, GotoShape DEF Backup, Readable
  <2>4. QED
    BY <1>1, <1>2, <1>3, <2>1, <2>2, <2>3, SetupKeeps DEF SetupSteps
<1>13. CASE Prepend
  <2>1. /\ want.dns /\ AsAsked /\ pc = "prepend" /\ last # "teardown"
        /\ UNCHANGED <<device, bypass, record, backup>>
    BY <1>13 DEF Undoable, IInv, Ready, Prepend, pinned, onLink
  <2>2. pc' = "idle" /\ last' = "setup" /\ want' = want /\ session' \in {"gone", "up"}
    BY <1>13, ExitShape DEF Prepend, IInv, TypeOK
  <2>3. Restorable'
    BY <2>1, <2>2 DEF Restorable, SetupSteps, TeardownSteps, AsAsked
  <2>4. Readable' => backup = "user"
    BY <1>3, <2>1 DEF Undoable, Saved
  <2>5. Readable' => Saved'
    BY <2>1, <2>2, <2>3, <2>4 DEF Saved
  <2>6. QED
    BY <1>2, <2>1, <2>2, <2>5 DEF Undoable
<1>14. QED
  BY <1>5, <1>6, <1>7, <1>8, <1>9, <1>10, <1>11, <1>12, <1>13 DEF cmd_setup

LEMMA TeardownUndoable == OrdinaryMachine /\ IInv /\ Undoable /\ cmd_teardown => Undoable'
<1> SUFFICES ASSUME OrdinaryMachine, IInv, Undoable, cmd_teardown
             PROVE  Undoable'
  OBVIOUS
<1>1. /\ pc \in TeardownSteps /\ last # "teardown" /\ pc # "record"
      /\ session \notin {"none", "dialog", "up"}
  BY DEF cmd_teardown, TeardownSteps, Unpin, Flush, Del, Revert, Restore, Undoable,
         IInv, Ready
<1>2. conf \in {"user", "vpn"} /\ (Readable' => Readable /\ Saved)
  BY ReadableStays DEF Next, IInv, TypeOK, Undoable
<1>3. CASE Unpin
  <2>1. /\ pc = "unpin" /\ Goto("flush") /\ bypass' = bypass \ {record}
        /\ UNCHANGED <<device, conf, backup>>
    BY <1>3 DEF Unpin, OrdinaryMachine, Failing, onLink, dnsFile
  <2>2. bypass' = {}
    BY <2>1 DEF Undoable
  <2>3. Readable' => Saved'
    BY <1>1, <1>2, <2>1, GotoShape DEF Saved, Restorable, TeardownSteps, SetupSteps
  <2>4. QED
    BY <1>1, <2>1, <2>2, <2>3, GotoShape DEF Undoable
<1>4. CASE Flush
  <2>1. pc = "flush" /\ Goto("del") /\ UNCHANGED <<device, bypass, record, conf, backup>>
    BY <1>4 DEF Flush, pinned, dnsFile
  <2>2. Readable' => Saved'
    BY <1>1, <1>2, <2>1, GotoShape DEF Saved, Restorable, TeardownSteps, SetupSteps
  <2>3. QED
    BY <1>1, <2>1, <2>2, GotoShape DEF Undoable
<1>5. CASE Del
  <2>1. /\ pc = "del" /\ AfterDel /\ Gone'
        /\ UNCHANGED <<bypass, record, conf, backup>>
    BY <1>5 DEF Del, OrdinaryMachine, Failing, LinkGone, Gone, pinned, dnsFile
  <2>2. CASE restore
    <3>1. Goto("revert")
      BY <2>1, <2>2 DEF AfterDel
    <3>2. pc' = "revert" /\ last' = last /\ bypass = {}
      BY <2>1, <3>1, GotoShape DEF Undoable
    <3>3. Readable' => Saved'
      BY <1>1, <1>2, <2>1, <3>2 DEF Saved, Restorable
    <3>4. QED
      BY <1>1, <2>1, <3>2, <3>3 DEF Undoable
  <2>3. CASE ~restore
    <3>1. Exit("teardown")
      BY <2>1, <2>3 DEF AfterDel
    <3>2. Readable' => Saved'
      BY <1>2, <2>1, <2>3, <3>1, ExitShape DEF Saved, Restorable, TeardownSteps
    <3>3. QED
      BY <2>1, <3>1, <3>2, ExitShape DEF Undoable
  <2>4. QED
    BY <2>2, <2>3
<1>6. CASE Revert
  <2>1. /\ pc = "revert" /\ Goto("restore") /\ Gone'
        /\ UNCHANGED <<bypass, record, conf, backup>>
    <3>1. Gone
      BY <1>6 DEF Revert, Undoable
    <3>2. linkdns' = FALSE \/ linkdns' = linkdns
      BY <1>6 DEF Revert
    <3>3. UNCHANGED <<device, defaulted>>
      BY <1>6 DEF Revert
    <3>4. Gone'
      <4>1. CASE linkdns' = FALSE
        BY <3>1, <3>3, <4>1 DEF Gone
      <4>2. CASE linkdns' = linkdns
        BY <3>1, <3>3, <4>2 DEF Gone
      <4>3. QED
        BY <3>2, <4>1, <4>2
    <3>5. QED
      BY <1>6, <3>4 DEF Revert, pinned, dnsFile
  <2>2. Readable' => Saved'
    BY <1>1, <1>2, <2>1, GotoShape DEF Saved, Restorable
  <2>3. QED
    BY <1>1, <2>1, <2>2, GotoShape DEF Undoable
<1>7. CASE Restore
  <2>1. /\ pc = "restore" /\ Exit("teardown")
        /\ UNCHANGED <<device, defaulted, linkdns, bypass, record>>
    BY <1>7 DEF Restore, onLink, pinned
  <2>2. ASSUME Readable'
        PROVE  conf' = "user" /\ backup' \in {"none", "user"}
    <3>1. ~Failing("restore")
      BY DEF OrdinaryMachine, Failing
    <3>2. backup \in {"none", "user"} /\ (conf = "vpn" => backup = "user")
      BY <1>2, <2>2 DEF Saved
    <3>3. CASE backup # "none" /\ conf' = backup /\ backup' = "none"
      BY <3>2, <3>3
    <3>4. CASE backup = "none" /\ UNCHANGED <<conf, backup>>
      BY <1>2, <3>2, <3>4
    <3>5. QED
      BY <1>7, <3>1, <3>3, <3>4 DEF Restore, dnsFile
  <2>3. Readable' => Saved'
    BY <2>1, <2>2, ExitShape DEF Saved
  <2>4. Gone' /\ bypass' = {}
    BY <2>1 DEF Undoable, Gone
  <2>5. QED
    BY <2>1, <2>3, <2>4, ExitShape DEF Undoable
<1>8. QED
  BY <1>3, <1>4, <1>5, <1>6, <1>7 DEF cmd_teardown

LEMMA GuiUndoable == OrdinaryMachine /\ IInv /\ Undoable /\ Gui => Undoable'
<1> SUFFICES ASSUME OrdinaryMachine, IInv, Undoable, Gui
             PROVE  Undoable'
  OBVIOUS
<1>1. UNCHANGED <<device, defaulted, linkdns, bypass, record, conf, backup>>
  BY DEF Gui, Connect, Disconnect, Crash, Restart, CleanUp, Ignore, onLink, pinned, dnsFile
<1>2. Readable' => Readable /\ Saved
  BY ReadableStays DEF Next, Undoable
<1> USE DEF Undoable, Saved, Restorable, Gone, SetupSteps, TeardownSteps
<1>3. CASE Connect
  <2>1. pc' = "stale" /\ last' = "none" /\ pc = "idle"
    BY <1>3 DEF Connect, Run
  <2>2. Readable' => conf = "user"
    BY <1>3, <1>2, OwnConf DEF Connect
  <2>3. QED
    BY <1>1, <1>2, <2>1, <2>2
<1>4. CASE Disconnect
  <2>1. /\ pc' = "unpin" /\ last' = "none" /\ want' = want /\ restore' = want.dns
        /\ session = "up" /\ session' = "teardown" /\ pc = "idle"
    BY <1>4 DEF Disconnect, Run, IInv, Ready
  <2>2. QED
    BY <1>1, <1>2, <2>1
<1>5. CASE Crash
  BY <1>1, <1>5, <1>2 DEF Crash
<1>6. CASE Restart
  <2>1. /\ session = "gone" /\ pc = "idle" /\ UNCHANGED <<pc, want, last>>
        /\ device => session' = "dialog"
        /\ device /\ backup = "user" => restore'
    BY <1>6 DEF Restart
  <2>2. QED
    BY <1>1, <1>2, <2>1
<1>7. CASE CleanUp
  <2>1. /\ pc' = "unpin" /\ last' = "none" /\ UNCHANGED <<want, restore>>
        /\ session = "dialog" /\ session' = "teardown" /\ pc = "idle"
    BY <1>7 DEF CleanUp, Run, IInv, Ready
  <2>2. QED
    BY <1>1, <1>2, <2>1
<1>8. CASE Ignore
  BY <1>8 DEF Ignore, OrdinaryMachine
<1>9. QED
  BY <1>3, <1>4, <1>5, <1>6, <1>7, <1>8 DEF Gui

LEMMA InductiveUndoable ==
    OrdinaryMachine /\ IInv /\ Undoable /\ [Next]_vars => Undoable'
<1> SUFFICES ASSUME OrdinaryMachine, IInv, Undoable, [Next]_vars
             PROVE  Undoable'
  OBVIOUS
<1>1. CASE Denied
  <2>1. /\ pc = "stale" /\ Exit("denied")
        /\ UNCHANGED <<device, bypass, record, conf, backup>>
    BY <1>1 DEF Denied, OrdinaryMachine, Failing, onLink, pinned, dnsFile
  <2>2. bypass \subseteq {record}
    BY <2>1 DEF Undoable
  <2>3. Readable' => Saved'
    BY <2>1, OwnConf, ReadableStays, ExitShape DEF SetupSteps, Undoable, Saved
  <2>4. QED
    BY <2>1, <2>2, <2>3, ExitShape DEF Undoable
<1>2. ~Killed /\ ~Reboot
  BY DEF OrdinaryMachine, Failing, Killed, Reboot
<1>3. CASE UNCHANGED vars
  BY <1>3, ReadableStays DEF vars, Undoable, Saved, Restorable, Gone
<1>4. QED
  BY <1>1, <1>2, <1>3, SetupUndoable, TeardownUndoable, GuiUndoable DEF Next

THEOREM UndoableHolds == Spec => [](OrdinaryMachine => Undoable)
<1>1. IInv /\ (OrdinaryMachine => Undoable) /\ [Next]_vars => (OrdinaryMachine => Undoable)'
  <2>1. [Next]_vars /\ OrdinaryMachine' => OrdinaryMachine
    BY MachineStays DEF OrdinaryMachine
  <2>2. QED
    BY <2>1, InductiveUndoable
<1>2. QED
  BY IInvHolds, InitUndoable, <1>1, PTL DEF Spec

\* On an ordinary machine, what a later teardown needs is on disk whenever no
\* helper runs: the bypass always, the user's resolv.conf if it could be read
\* (helper.rs 248-342).
THEOREM AlwaysRecoverable == Spec => []Recoverable
<1>1. (OrdinaryMachine => Undoable) => Recoverable
  BY DEF Undoable, Saved, Recoverable
<1>2. QED
  BY UndoableHolds, <1>1, PTL

\* On an ordinary machine a teardown that ran to its end has left nothing of any
\* tunnel, crashed or failed ones included, but a resolv.conf that could not be
\* read (helper.rs 480-542).
THEOREM TeardownCleans == Spec => []CleanAfterTeardown
<1>1. (OrdinaryMachine => Undoable) => CleanAfterTeardown
  BY DEF Undoable, Saved, Gone, CleanAfterTeardown
<1>2. QED
  BY UndoableHolds, <1>1, PTL

-----------------------------------------------------------------------------
(***************************************************************************)
(* The configuration.                                                       *)
(***************************************************************************)
LEMMA BoundedIsSeq ==
    ASSUME NEW s \in BoundedProfiles
    PROVE  /\ s \in Seq(ProfileConfig) /\ Len(s) \in 0 .. MaxProfiles
           /\ DOMAIN s = 1 .. Len(s) /\ \A i \in 1 .. Len(s) : s[i] \in ProfileConfig
<1>1. PICK n \in 0 .. MaxProfiles : s \in [1 .. n -> ProfileConfig]
  BY DEF BoundedProfiles
<1>2. n \in Nat /\ s \in Seq(ProfileConfig)
  BY <1>1, ProfileConstants, SeqDef
<1>3. DOMAIN s = 1 .. Len(s) /\ Len(s) \in Nat /\ DOMAIN s = 1 .. n
  BY <1>1, <1>2, LenProperties
<1>4. Len(s) = n
  <2> DEFINE m == Len(s)
  <2>1. m \in Nat /\ n \in Nat /\ 1 .. m = 1 .. n
    BY <1>2, <1>3
  <2> HIDE DEF m
  <2>2. m <= n
    BY <2>1
  <2>3. n <= m
    BY <2>1
  <2>4. QED
    BY <2>1, <2>2, <2>3 DEF m
<1>5. QED
  BY <1>1, <1>2, <1>3, <1>4

LEMMA SeqIsBounded ==
    ASSUME NEW s \in Seq(ProfileConfig), Len(s) <= MaxProfiles
    PROVE  s \in BoundedProfiles
<1>1. s \in [1 .. Len(s) -> ProfileConfig] /\ Len(s) \in 0 .. MaxProfiles
  BY LenProperties, ProfileConstants
<1>2. QED
  BY <1>1 DEF BoundedProfiles

\* Two configurations that differ in the passwords of their profiles at most.
Same(a, b) ==
    /\ a.last_selected = b.last_selected /\ DOMAIN a.profiles = DOMAIN b.profiles
    /\ \A i \in DOMAIN a.profiles : /\ a.profiles[i].name = b.profiles[i].name
                                    /\ a.profiles[i].given = b.profiles[i].given

\* The profiles in K without their passwords.
Cleared(cfg, K) ==
    [cfg EXCEPT !.profiles =
        [i \in DOMAIN @ |-> IF i \in K THEN [@[i] EXCEPT !.password = Empty] ELSE @[i]]]

LEMMA ClearedIsSame ==
    ASSUME NEW cfg \in AppConfig, NEW K
    PROVE  /\ Cleared(cfg, K) \in AppConfig /\ Same(Cleared(cfg, K), cfg)
           /\ \A i \in DOMAIN cfg.profiles :
                Cleared(cfg, K).profiles[i].password =
                    IF i \in K THEN Empty ELSE cfg.profiles[i].password
<1> DEFINE old == cfg.profiles
           new == [i \in DOMAIN old |->
                        IF i \in K THEN [old[i] EXCEPT !.password = Empty] ELSE old[i]]
<1>1. PICK n \in 0 .. MaxProfiles : old \in [1 .. n -> ProfileConfig]
  BY DEF AppConfig, BoundedProfiles
<1>2. \A i \in 1 .. n : [old[i] EXCEPT !.password = Empty] \in ProfileConfig
  BY <1>1 DEF ProfileConfig
<1>3. new \in [1 .. n -> ProfileConfig]
  BY <1>1, <1>2
<1>4. \A i \in 1 .. n : /\ new[i].name = old[i].name /\ new[i].given = old[i].given
                        /\ new[i].password = IF i \in K THEN Empty ELSE old[i].password
  BY <1>1 DEF ProfileConfig
<1>5. Cleared(cfg, K) = [cfg EXCEPT !.profiles = new]
  BY DEF Cleared
<1> HIDE DEF new
<1>6. new \in BoundedProfiles
  BY <1>3 DEF BoundedProfiles
<1>7. [cfg EXCEPT !.profiles = new] \in AppConfig
      /\ [cfg EXCEPT !.profiles = new].profiles = new
      /\ [cfg EXCEPT !.profiles = new].last_selected = cfg.last_selected
  BY <1>6 DEF AppConfig
<1>8. QED
  BY <1>1, <1>3, <1>4, <1>5, <1>7 DEF Same

LEMMA SavedIsSame ==
    ASSUME NEW cfg \in AppConfig, save_config(cfg)
    PROVE  /\ file' \in AppConfig /\ Same(file', cfg)
           /\ \A i \in DOMAIN file'.profiles : file'.profiles[i].password = Empty
<1>1. file' = Cleared(cfg, DOMAIN cfg.profiles)
  <2>1. [i \in DOMAIN cfg.profiles |-> [cfg.profiles[i] EXCEPT !.password = Empty]]
        = [i \in DOMAIN cfg.profiles |->
            IF i \in DOMAIN cfg.profiles THEN [cfg.profiles[i] EXCEPT !.password = Empty]
            ELSE cfg.profiles[i]]
    OBVIOUS
  <2>2. QED
    BY <2>1 DEF save_config, Cleared
<1>2. QED
  BY <1>1, ClearedIsSame DEF Same

-----------------------------------------------------------------------------
(* Types: an editor is open on an entry that is there, or there is room.    *)

Fits == \A w \in Windows :
    /\ dialog[w].kind = "add"  => Len(config[w].profiles) < MaxProfiles
    /\ dialog[w].kind = "edit" => dialog[w].idx \in 1 .. Len(config[w].profiles)

\* A window that is not open has no editor.
Typed == ProfilesTypeOK /\ Fits /\ \A w \in Windows \ open : dialog[w] = Closed

LEMMA SelectedTyped ==
    ASSUME NEW cfg \in AppConfig
    PROVE  Selected(cfg) \in 0 .. Len(cfg.profiles)
<1>1. cfg.profiles \in BoundedProfiles
  BY DEF AppConfig
<1>2. cfg.profiles \in Seq(ProfileConfig) /\ DOMAIN cfg.profiles = 1 .. Len(cfg.profiles)
      /\ Len(cfg.profiles) \in Nat
  BY <1>1, BoundedIsSeq
<1>3. cfg.profiles # <<>> => Len(cfg.profiles) >= 1
  BY <1>2, EmptySeq
<1>4. QED
  BY <1>2, <1>3 DEF Selected

LEMMA DefaultTyped ==
    DefaultConfig \in AppConfig /\ Len(DefaultConfig.profiles) = 0 /\ Closed \in Editors
<1>1. <<>> \in Seq(ProfileConfig) /\ Len(<<>>) = 0 /\ Len(<<>>) <= MaxProfiles
  BY EmptySeq, ProfileConstants
<1>2. <<>> \in BoundedProfiles
  BY <1>1, SeqIsBounded
<1>3. DefaultConfig \in AppConfig /\ DefaultConfig.profiles = <<>>
  BY <1>2, ProfileConstants DEF DefaultConfig, AppConfig
<1>4. Closed \in Editors
  BY ProfileConstants DEF Closed, Editors
<1>5. QED
  BY <1>1, <1>3, <1>4

LEMMA InitTyped == ProfilesInit => Typed
<1> SUFFICES ASSUME ProfilesInit
             PROVE  Typed
  OBVIOUS
<1>1. DefaultConfig \in AppConfig /\ Len(DefaultConfig.profiles) = 0 /\ Closed \in Editors
  BY DefaultTyped
<1>2. 0 \in 0 .. MaxProfiles
  BY ProfileConstants
<1>3. \A w \in Windows : Len(config[w].profiles) = 0 /\ shown[w] = 0
  BY <1>1 DEF ProfilesInit
<1>4. mixed \subseteq Names
  BY DEF ProfilesInit, Shared
<1>5. QED
  BY <1>1, <1>2, <1>3, <1>4, ProfileConstants DEF ProfilesInit, Typed, ProfilesTypeOK, Fits, Closed

LEMMA CommitTyped ==
    ASSUME Typed, NEW w \in Windows, NEW cfg \in AppConfig, Commit(w, cfg)
    PROVE  /\ file' \in AppConfig /\ config' \in [Windows -> AppConfig]
           /\ dialog' \in [Windows -> Editors] /\ Fits'
           /\ shown' \in [Windows -> 0 .. MaxProfiles]
           /\ \A v \in Windows : shown'[v] \in 0 .. Len(config'[v].profiles)
<1>1. file' \in AppConfig
  BY SavedIsSame DEF Commit
<1>2. Closed \in Editors
  BY ProfileConstants DEF Closed, Editors
<1>3. config' \in [Windows -> AppConfig] /\ dialog' \in [Windows -> Editors]
      /\ config'[w] = cfg /\ dialog'[w] = Closed
      /\ \A v \in Windows \ {w} : config'[v] = config[v] /\ dialog'[v] = dialog[v]
  BY <1>2 DEF Commit, Typed, ProfilesTypeOK
<1>4. Fits'
  BY <1>3 DEF Fits, Typed, Closed
<1>5. shown' = [shown EXCEPT ![w] = Selected(cfg)] /\ Selected(cfg) \in 0 .. Len(cfg.profiles)
      /\ Len(cfg.profiles) \in 0 .. MaxProfiles
  BY SelectedTyped, BoundedIsSeq DEF Commit, AppConfig
<1>6. /\ shown' \in [Windows -> 0 .. MaxProfiles]
      /\ \A v \in Windows : shown'[v] \in 0 .. Len(config'[v].profiles)
  BY <1>3, <1>5, ProfileConstants DEF Typed, ProfilesTypeOK
<1>7. QED
  BY <1>1, <1>3, <1>4, <1>6

\* What is left when an entry is taken out.
LEMMA LeftTyped ==
    ASSUME NEW s \in BoundedProfiles, NEW k \in 1 .. Len(s)
    PROVE  /\ RemoveAt(s, k) \in BoundedProfiles
           /\ Len(RemoveAt(s, k)) = Len(s) - 1
           /\ DOMAIN RemoveAt(s, k) = 1 .. Len(s) - 1
           /\ \A i \in 1 .. Len(s) - 1 :
                RemoveAt(s, k)[i] = IF i < k THEN s[i] ELSE s[i + 1]
<1> DEFINE before == SubSeq(s, 1, k - 1)
           after  == SubSeq(s, k + 1, Len(s))
<1>1. s \in Seq(ProfileConfig) /\ Len(s) \in 0 .. MaxProfiles
      /\ \A i \in 1 .. Len(s) : s[i] \in ProfileConfig
  BY BoundedIsSeq
<1>2. /\ before \in Seq(ProfileConfig) /\ Len(before) = k - 1
      /\ \A i \in 1 .. k - 1 : before[i] = s[i]
  <2>1. \A i \in 1 .. k - 1 : s[i] \in ProfileConfig
    BY <1>1
  <2>2. /\ before \in Seq(ProfileConfig)
        /\ Len(before) = IF 1 <= k - 1 THEN (k - 1) - 1 + 1 ELSE 0
        /\ \A i \in 1 .. (k - 1) - 1 + 1 : before[i] = s[1 + i - 1]
    BY <2>1, SubSeqProperties
  <2> HIDE DEF before
  <2>3. QED
    BY <1>1, <2>2
<1>3. /\ after \in Seq(ProfileConfig) /\ Len(after) = Len(s) - k
      /\ \A i \in 1 .. Len(s) - k : after[i] = s[k + i]
  <2>1. \A i \in k + 1 .. Len(s) : s[i] \in ProfileConfig
    BY <1>1
  <2>2. /\ after \in Seq(ProfileConfig)
        /\ Len(after) = IF k + 1 <= Len(s) THEN Len(s) - (k + 1) + 1 ELSE 0
        /\ \A i \in 1 .. Len(s) - (k + 1) + 1 : after[i] = s[(k + 1) + i - 1]
    BY <1>1, <2>1, SubSeqProperties
  <2> HIDE DEF after
  <2>3. QED
    BY <1>1, <2>2
<1>4. RemoveAt(s, k) = before \o after
  BY DEF RemoveAt
<1> HIDE DEF before, after
<1>5. /\ before \o after \in Seq(ProfileConfig)
      /\ Len(before \o after) = Len(s) - 1
      /\ \A i \in 1 .. Len(s) - 1 :
            (before \o after)[i] = IF i <= k - 1 THEN before[i] ELSE after[i - (k - 1)]
  <2>1. before \in Seq(ProfileConfig) /\ after \in Seq(ProfileConfig)
    BY <1>2, <1>3
  <2>2. /\ before \o after \in Seq(ProfileConfig)
        /\ Len(before \o after) = Len(before) + Len(after)
        /\ \A i \in 1 .. Len(before) + Len(after) :
              (before \o after)[i] = IF i <= Len(before) THEN before[i]
                                     ELSE after[i - Len(before)]
    BY <2>1, ConcatProperties
  <2>3. Len(before) = k - 1 /\ Len(before) + Len(after) = Len(s) - 1
    BY <1>1, <1>2, <1>3
  <2>4. QED
    BY <2>2, <2>3, Zenon
<1>6. \A i \in 1 .. Len(s) - 1 : (before \o after)[i] = IF i < k THEN s[i] ELSE s[i + 1]
  <2> SUFFICES ASSUME NEW i \in 1 .. Len(s) - 1
               PROVE  (before \o after)[i] = IF i < k THEN s[i] ELSE s[i + 1]
    OBVIOUS
  <2>1. CASE i < k
    BY <1>1, <1>2, <1>5, <2>1
  <2>2. CASE i >= k
    <3>1. i - (k - 1) \in 1 .. Len(s) - k /\ k + (i - (k - 1)) = i + 1
      BY <1>1, <2>2
    <3>2. (before \o after)[i] = after[i - (k - 1)]
      BY <1>1, <1>5, <2>2
    <3>3. QED
      BY <1>1, <1>3, <2>2, <3>1, <3>2
  <2>3. i < k \/ i >= k
    BY <1>1, ProfileConstants
  <2>4. QED
    BY <2>1, <2>2, <2>3
<1>7. before \o after \in BoundedProfiles
  <2>1. Len(before \o after) <= MaxProfiles
    BY <1>1, <1>5, ProfileConstants
  <2>2. QED
    BY <1>5, <2>1, SeqIsBounded
<1>8. QED
  BY <1>4, <1>5, <1>6, <1>7, BoundedIsSeq

\* The configurations that the handlers of the editor commit.
Added(w, name, password) ==
    [profiles |-> Append(config[w].profiles,
                         [name |-> name, password |-> password, given |-> password]),
     last_selected |-> Len(config[w].profiles) + 1]

Changed(w, profile) == [config[w] EXCEPT !.profiles[dialog[w].idx] = profile]

Left(w) ==
    LET left == RemoveAt(config[w].profiles, dialog[w].idx)
    IN  [profiles |-> left, last_selected |-> IF left = <<>> THEN 0 ELSE 1]

LEMMA AddedTyped ==
    ASSUME Typed, NEW w \in Windows, dialog[w].kind = "add",
           NEW name \in Names, NEW password \in Passwords
    PROVE  /\ Added(w, name, password) \in AppConfig
           /\ DOMAIN Added(w, name, password).profiles = 1 .. Len(config[w].profiles) + 1
           /\ \A i \in 1 .. Len(config[w].profiles) :
                Added(w, name, password).profiles[i] = config[w].profiles[i]
           /\ Added(w, name, password).profiles[Len(config[w].profiles) + 1] =
                [name |-> name, password |-> password, given |-> password]
<1> DEFINE s == config[w].profiles
           e == [name |-> name, password |-> password, given |-> password]
<1>1. /\ s \in BoundedProfiles /\ Len(s) < MaxProfiles /\ e \in ProfileConfig
      /\ Added(w, name, password) = [profiles |-> Append(s, e), last_selected |-> Len(s) + 1]
  BY DEF Typed, ProfilesTypeOK, Fits, AppConfig, ProfileConfig, Added
<1> HIDE DEF s, e
<1>2. s \in Seq(ProfileConfig) /\ Len(s) \in 0 .. MaxProfiles
  BY <1>1, BoundedIsSeq
<1>3. /\ Append(s, e) \in Seq(ProfileConfig) /\ Len(Append(s, e)) = Len(s) + 1
      /\ \A i \in 1 .. Len(s) : Append(s, e)[i] = s[i]
      /\ Append(s, e)[Len(s) + 1] = e
  BY <1>1, <1>2, AppendProperties
<1>4. Append(s, e) \in BoundedProfiles /\ Len(s) + 1 \in 0 .. MaxProfiles
  <2>1. Len(Append(s, e)) <= MaxProfiles /\ Len(s) + 1 \in 0 .. MaxProfiles
    BY <1>1, <1>2, <1>3, ProfileConstants
  <2>2. QED
    BY <1>3, <2>1, SeqIsBounded
<1>5. DOMAIN Append(s, e) = 1 .. Len(s) + 1
  BY <1>3, LenProperties
<1>6. QED
  BY <1>1, <1>3, <1>4, <1>5 DEF AppConfig, s, e

LEMMA ChangedTyped ==
    ASSUME Typed, NEW w \in Windows, dialog[w].kind = "edit", NEW profile \in ProfileConfig
    PROVE  /\ Changed(w, profile) \in AppConfig
           /\ Changed(w, profile).last_selected = config[w].last_selected
           /\ DOMAIN Changed(w, profile).profiles = 1 .. Len(config[w].profiles)
           /\ \A i \in 1 .. Len(config[w].profiles) :
                Changed(w, profile).profiles[i] =
                    IF i = dialog[w].idx THEN profile ELSE config[w].profiles[i]
<1> DEFINE s == config[w].profiles
           t == [s EXCEPT ![dialog[w].idx] = profile]
<1>1. config[w] \in AppConfig /\ s \in BoundedProfiles /\ dialog[w].idx \in 1 .. Len(s)
  BY DEF Typed, ProfilesTypeOK, Fits, AppConfig
<1>2. Changed(w, profile) = [config[w] EXCEPT !.profiles = t]
  BY <1>1 DEF Changed, AppConfig
<1> HIDE DEF s
<1>3. s \in Seq(ProfileConfig) /\ Len(s) \in 0 .. MaxProfiles
  BY <1>1, BoundedIsSeq
<1>4. /\ t \in Seq(ProfileConfig) /\ Len(t) = Len(s)
      /\ \A i \in 1 .. Len(s) : t[i] = IF i = dialog[w].idx THEN profile ELSE s[i]
  BY <1>1, <1>3, ExceptSeq
<1> HIDE DEF t
<1>5. t \in BoundedProfiles /\ DOMAIN t = 1 .. Len(s)
  BY <1>3, <1>4, SeqIsBounded, LenProperties
<1>6. QED
  BY <1>1, <1>2, <1>4, <1>5 DEF AppConfig, s

LEMMA LeftIsTyped ==
    ASSUME Typed, NEW w \in Windows, dialog[w].kind = "edit"
    PROVE  /\ Left(w) \in AppConfig
           /\ DOMAIN Left(w).profiles = 1 .. Len(config[w].profiles) - 1
           /\ \A i \in 1 .. Len(config[w].profiles) - 1 :
                Left(w).profiles[i] = IF i < dialog[w].idx THEN config[w].profiles[i]
                                      ELSE config[w].profiles[i + 1]
<1> DEFINE s == config[w].profiles
           left == RemoveAt(s, dialog[w].idx)
<1>1. s \in BoundedProfiles /\ dialog[w].idx \in 1 .. Len(s)
  BY DEF Typed, ProfilesTypeOK, Fits, AppConfig
<1>2. Left(w) = [profiles |-> left, last_selected |-> IF left = <<>> THEN 0 ELSE 1]
  BY DEF Left
<1> HIDE DEF s
<1>3. /\ left \in BoundedProfiles /\ DOMAIN left = 1 .. Len(s) - 1
      /\ \A i \in 1 .. Len(s) - 1 : left[i] = IF i < dialog[w].idx THEN s[i] ELSE s[i + 1]
  BY <1>1, LeftTyped
<1> HIDE DEF left
<1>4. QED
  BY <1>2, <1>3, ProfileConstants DEF AppConfig, s

\* A window opens on the file, less the passwords that moved to the keyring.
LEMMA OpenedTyped ==
    ASSUME Typed, NEW w \in Windows, NEW moved \in SUBSET Unmigrated, migrate_passwords(w, moved)
    PROVE  /\ config' = [config EXCEPT ![w] = Cleared(file, moved)]
           /\ config'[w] \in AppConfig /\ Same(config'[w], file)
           /\ file' \in AppConfig /\ Same(file', file)
           /\ keyring' \in [Names -> Passwords \cup {Empty, NoEntry}]
<1>1. file \in AppConfig /\ file.profiles \in BoundedProfiles /\ config \in [Windows -> AppConfig]
  BY DEF Typed, ProfilesTypeOK, AppConfig
<1>2. config' = [config EXCEPT ![w] = Cleared(file, moved)]
  BY DEF migrate_passwords, Cleared
<1>3. config'[w] = Cleared(file, moved)
  BY <1>1, <1>2
<1>4. config'[w] \in AppConfig /\ Same(config'[w], file)
  BY <1>1, <1>3, ClearedIsSame
<1>5. file' \in AppConfig /\ Same(file', file)
  <2>1. CASE moved = {}
    BY <1>1, <2>1 DEF migrate_passwords, Same
  <2>2. CASE moved # {}
    <3>1. save_config(config'[w])
      BY <2>2 DEF migrate_passwords
    <3>2. file' \in AppConfig /\ Same(file', config'[w])
      BY <1>4, <3>1, SavedIsSame
    <3>3. QED
      BY <1>4, <3>2 DEF Same
  <2>3. QED
    BY <2>1, <2>2
<1>6. keyring' \in [Names -> Passwords \cup {Empty, NoEntry}]
  BY DEF migrate_passwords
<1>7. QED
  BY <1>2, <1>4, <1>5, <1>6

\* What an action does, by its effect on the configurations.
LEMMA SaveAddCommits ==
    ASSUME NEW w \in Windows, NEW name \in Names, NEW password \in Passwords,
           SaveAdd(w, name, password)
    PROVE  /\ dialog[w].kind = "add" /\ Commit(w, Added(w, name, password)) /\ open' = open
           /\ w \in open /\ Mix(Added(w, name, password).profiles, {})
           /\ keyring' \in {[keyring EXCEPT ![name] = password], keyring}
           /\ ~RingFails => keyring' = [keyring EXCEPT ![name] = password]
  BY DEF SaveAdd, Added, store_password, Granted

\* The profile that SaveEdit puts in the place of the one that was edited.
Edited(w, name, typed) ==
    [name     |-> name,
     password |-> IF typed = NoEntry THEN dialog[w].password ELSE typed,
     given    |-> IF typed = NoEntry THEN config[w].profiles[dialog[w].idx].given ELSE typed]

LEMMA SaveEditCommits ==
    ASSUME NEW w \in Windows, NEW name \in Names, NEW typed \in Passwords \cup {NoEntry},
           SaveEdit(w, name, typed)
    PROVE  /\ dialog[w].kind = "edit" /\ open' = open /\ w \in open
           /\ Commit(w, Changed(w, Edited(w, name, typed)))
           /\ Entries(w, name, Edited(w, name, typed).password)
           /\ Mix(Changed(w, Edited(w, name, typed)).profiles,
                  IF typed = NoEntry /\ dialog[w].name \in mixed THEN {name} ELSE {})
  BY DEF SaveEdit, Changed, Edited

LEMMA DeleteCommits ==
    ASSUME NEW w \in Windows, DeleteProfile(w)
    PROVE  /\ dialog[w].kind = "edit" /\ Commit(w, Left(w)) /\ UNCHANGED <<open, mixed>>
           /\ w \in open
           /\ keyring' \in {[keyring EXCEPT ![dialog[w].name] = NoEntry], keyring}
           /\ ~RingFails => keyring' = [keyring EXCEPT ![dialog[w].name] = NoEntry]
  BY DEF DeleteProfile, Left, delete_password, Granted

LEMMA EditedTyped ==
    ASSUME Typed, NEW w \in Windows, dialog[w].kind = "edit", NEW name \in Names,
           NEW typed \in Passwords \cup {NoEntry}
    PROVE  Edited(w, name, typed) \in ProfileConfig
<1>1. config[w].profiles \in BoundedProfiles /\ dialog[w].idx \in 1 .. Len(config[w].profiles)
      /\ dialog[w] \in Editors
  BY DEF Typed, ProfilesTypeOK, Fits, AppConfig
<1>2. config[w].profiles[dialog[w].idx] \in ProfileConfig
  BY <1>1, BoundedIsSeq
<1>3. QED
  BY <1>1, <1>2 DEF Edited, ProfileConfig, Editors

\* An editor belongs to a window that is open.
LEMMA EditorsOpen ==
    ASSUME Typed, NEW w \in Windows, Editing(w)
    PROVE  \A v \in Windows \ open' : dialog'[v] = Closed
<1>1. w \in open /\ open' = open
  BY DEF Editing, OpenAdd, OpenEdit, Cancel, DeleteProfile, SaveAdd, SaveEdit, Free
<1>2. \A v \in Windows \ {w} : dialog'[v] = dialog[v]
  BY DEF Editing, OpenAdd, OpenEdit, Cancel, DeleteProfile, SaveAdd, SaveEdit, Commit, Typed,
         ProfilesTypeOK
<1>3. QED
  BY <1>1, <1>2 DEF Typed

\* The observer has only names.
LEMMA MixedTyped == ASSUME Typed, [ProfilesNext]_profilesVars PROVE mixed' \subseteq Names
<1>1. mixed \subseteq Names /\ \A s : Shared(s) \subseteq Names
  BY DEF Typed, ProfilesTypeOK, Shared
<1>2. ASSUME NEW w \in Windows, NEW name \in Names, NEW password \in Passwords,
             SaveAdd(w, name, password)
      PROVE  mixed' \subseteq Names
  BY <1>1, <1>2 DEF SaveAdd, Mix
<1>3. ASSUME NEW w \in Windows, NEW name \in Names, NEW typed \in Passwords \cup {NoEntry},
             SaveEdit(w, name, typed)
      PROVE  mixed' \subseteq Names
  BY <1>1, <1>3, SaveEditCommits DEF Mix
<1>4. QED
  BY <1>1, <1>2, <1>3 DEF ProfilesNext, Editing, OpenWindow, CloseWindow, Select, OpenAdd,
     OpenEdit, Cancel, DeleteProfile, profilesVars

LEMMA EditingTyped == ASSUME Typed, NEW w \in Windows, Editing(w) PROVE ProfilesTypeOK' /\ Fits'
<1>0. mixed' \subseteq Names
  BY MixedTyped DEF ProfilesNext
<1>1. config[w] \in AppConfig /\ dialog[w] \in Editors /\ config[w].profiles \in BoundedProfiles
      /\ keyring \in [Names -> Passwords \cup {Empty, NoEntry}]
  BY DEF Typed, ProfilesTypeOK, AppConfig
<1>2. /\ config[w].profiles \in Seq(ProfileConfig) /\ Len(config[w].profiles) \in 0 .. MaxProfiles
      /\ DOMAIN config[w].profiles = 1 .. Len(config[w].profiles)
      /\ \A i \in 1 .. Len(config[w].profiles) : config[w].profiles[i] \in ProfileConfig
  BY <1>1, BoundedIsSeq
<1>3. CASE OpenAdd(w)
  <2>1. dialog' \in [Windows -> Editors] /\ dialog'[w].kind = "add"
        /\ \A v \in Windows \ {w} : dialog'[v] = dialog[v]
    BY <1>1, <1>3 DEF OpenAdd, Typed, ProfilesTypeOK, Editors
  <2>2. QED
    BY <1>0, <1>3, <2>1 DEF OpenAdd, Typed, ProfilesTypeOK, Fits
<1>4. CASE OpenEdit(w)
  <2>1. PICK granted \in Granted :
            dialog' = [dialog EXCEPT ![w] =
                [kind |-> "edit", idx |-> shown[w], name |-> config[w].profiles[shown[w]].name,
                 password |-> retrieve_password(config[w].profiles[shown[w]].name, granted)]]
    BY <1>4 DEF OpenEdit
  <2>2. shown[w] \in 1 .. Len(config[w].profiles)
    BY <1>2, <1>4 DEF OpenEdit
  <2>3. config[w].profiles[shown[w]].name \in Names
    BY <1>2, <2>2 DEF ProfileConfig
  <2>4. retrieve_password(config[w].profiles[shown[w]].name, granted) \in Passwords \cup {Empty}
    BY <1>1, <2>3 DEF retrieve_password
  <2>5. /\ dialog' \in [Windows -> Editors] /\ dialog'[w].kind = "edit"
        /\ dialog'[w].idx = shown[w]
        /\ \A v \in Windows \ {w} : dialog'[v] = dialog[v]
    BY <2>1, <2>3, <2>4 DEF Typed, ProfilesTypeOK, Editors
  <2>6. QED
    BY <1>0, <1>4, <2>2, <2>5 DEF OpenEdit, Typed, ProfilesTypeOK, Fits
<1>5. CASE Cancel(w)
  <2>1. Closed \in Editors /\ Closed.kind = "closed"
    BY ProfileConstants DEF Closed, Editors
  <2>2. dialog' \in [Windows -> Editors] /\ dialog'[w].kind = "closed"
        /\ \A v \in Windows \ {w} : dialog'[v] = dialog[v]
    BY <1>5, <2>1 DEF Cancel, Typed, ProfilesTypeOK
  <2>3. QED
    BY <1>0, <1>5, <2>2 DEF Cancel, Typed, ProfilesTypeOK, Fits
<1>6. CASE DeleteProfile(w)
  <2>1. Left(w) \in AppConfig /\ Commit(w, Left(w)) /\ open' = open
    BY <1>6, DeleteCommits, LeftIsTyped
  <2>2. keyring' \in [Names -> Passwords \cup {Empty, NoEntry}]
    BY <1>1, <1>6, DeleteCommits
  <2>3. QED
    BY <1>0, <2>1, <2>2, CommitTyped DEF Typed, ProfilesTypeOK
<1>7. ASSUME NEW name \in Names, NEW password \in Passwords, SaveAdd(w, name, password)
      PROVE  ProfilesTypeOK' /\ Fits'
  <2>1. Added(w, name, password) \in AppConfig /\ Commit(w, Added(w, name, password))
        /\ open' = open
    BY <1>7, SaveAddCommits, AddedTyped
  <2>2. keyring' \in [Names -> Passwords \cup {Empty, NoEntry}]
    BY <1>1, <1>7, SaveAddCommits
  <2>3. QED
    BY <1>0, <2>1, <2>2, CommitTyped DEF Typed, ProfilesTypeOK
<1>8. ASSUME NEW name \in Names, NEW typed \in Passwords \cup {NoEntry}, SaveEdit(w, name, typed)
      PROVE  ProfilesTypeOK' /\ Fits'
  <2> DEFINE profile == Edited(w, name, typed)
  <2>1. /\ dialog[w].kind = "edit" /\ Commit(w, Changed(w, profile)) /\ open' = open
        /\ Entries(w, name, profile.password)
    BY <1>8, SaveEditCommits
  <2>2. profile \in ProfileConfig
    BY <2>1, EditedTyped
  <2>3. profile.password \in Passwords \cup {Empty}
    BY <2>2 DEF ProfileConfig
  <2> HIDE DEF profile
  <2>4. Changed(w, profile) \in AppConfig
    BY <2>1, <2>2, ChangedTyped
  <2>5. keyring' \in [Names -> Passwords \cup {Empty, NoEntry}]
    BY <1>1, <2>1, <2>3 DEF Entries, store_password, delete_password
  <2>6. QED
    BY <1>0, <2>1, <2>4, <2>5, CommitTyped DEF Typed, ProfilesTypeOK
<1>9. QED
  BY <1>3, <1>4, <1>5, <1>6, <1>7, <1>8 DEF Editing

LEMMA InductiveTyped == Typed /\ [ProfilesNext]_profilesVars => Typed'
<1> SUFFICES ASSUME Typed, [ProfilesNext]_profilesVars
             PROVE  Typed'
  OBVIOUS
<1>0. mixed' \subseteq Names
  BY MixedTyped
<1>1. ASSUME NEW w \in Windows, OpenWindow(w)
      PROVE  Typed'
  <2>1. PICK moved \in SUBSET Unmigrated : migrate_passwords(w, moved)
    BY <1>1 DEF OpenWindow
  <2>2. /\ config' = [config EXCEPT ![w] = Cleared(file, moved)]
        /\ config'[w] \in AppConfig /\ Same(config'[w], file) /\ file' \in AppConfig
        /\ keyring' \in [Names -> Passwords \cup {Empty, NoEntry}]
    BY <2>1, OpenedTyped
  <2>3. config' \in [Windows -> AppConfig] /\ \A v \in Windows \ {w} : config'[v] = config[v]
    BY <2>2 DEF Typed, ProfilesTypeOK
  <2>4. shown' = [shown EXCEPT ![w] = Selected(config'[w])] /\ dialog' = dialog
        /\ open' = open \cup {w}
    BY <1>1 DEF OpenWindow
  <2>5. Selected(config'[w]) \in 0 .. Len(config'[w].profiles)
        /\ Len(config'[w].profiles) \in 0 .. MaxProfiles
    BY <2>2, SelectedTyped, BoundedIsSeq DEF AppConfig
  <2>6. shown' \in [Windows -> 0 .. MaxProfiles]
        /\ \A v \in Windows : shown'[v] \in 0 .. Len(config'[v].profiles)
    BY <2>3, <2>4, <2>5, ProfileConstants DEF Typed, ProfilesTypeOK
  <2>7. dialog[w] = Closed
    BY <1>1 DEF OpenWindow, Typed
  <2>8. QED
    BY <1>0, <2>2, <2>3, <2>4, <2>6, <2>7 DEF Typed, ProfilesTypeOK, Fits, Closed
<1>2. ASSUME NEW w \in Windows, CloseWindow(w)
      PROVE  Typed'
  <2>1. DefaultConfig \in AppConfig /\ Len(DefaultConfig.profiles) = 0 /\ Closed \in Editors
    BY DefaultTyped
  <2>2. /\ config' \in [Windows -> AppConfig] /\ dialog' \in [Windows -> Editors]
        /\ shown' \in [Windows -> 0 .. MaxProfiles]
        /\ config'[w] = DefaultConfig /\ dialog'[w] = Closed /\ shown'[w] = 0
        /\ \A v \in Windows \ {w} : /\ config'[v] = config[v] /\ dialog'[v] = dialog[v]
                                    /\ shown'[v] = shown[v]
    BY <1>2, <2>1, ProfileConstants DEF CloseWindow, Typed, ProfilesTypeOK
  <2>3. QED
    BY <1>0, <1>2, <2>1, <2>2 DEF CloseWindow, Typed, ProfilesTypeOK, Fits, Closed
<1>3. ASSUME NEW w \in Windows, NEW i \in 1 .. MaxProfiles, Select(w, i)
      PROVE  Typed'
  <2>1. /\ config' = [config EXCEPT ![w] = [config[w] EXCEPT !.last_selected = i]]
        /\ shown' = [shown EXCEPT ![w] = i] /\ i \in DOMAIN config[w].profiles
        /\ save_config(config'[w]) /\ UNCHANGED <<keyring, open, dialog, mixed>>
    BY <1>3 DEF Select, Typed, ProfilesTypeOK
  <2>2. config[w] \in AppConfig /\ config[w].profiles \in BoundedProfiles
    BY DEF Typed, ProfilesTypeOK, AppConfig
  <2>3. i \in 1 .. Len(config[w].profiles)
    BY <2>1, <2>2, BoundedIsSeq
  <2>4. [config[w] EXCEPT !.last_selected = i] \in AppConfig
        /\ [config[w] EXCEPT !.last_selected = i].profiles = config[w].profiles
    BY <2>2, ProfileConstants DEF AppConfig
  <2>5. /\ config' \in [Windows -> AppConfig] /\ config'[w] \in AppConfig
        /\ \A v \in Windows : config'[v].profiles = config[v].profiles
    BY <2>1, <2>4 DEF Typed, ProfilesTypeOK
  <2>6. file' \in AppConfig
    BY <2>1, <2>5, SavedIsSame
  <2>7. shown' \in [Windows -> 0 .. MaxProfiles]
        /\ \A v \in Windows : shown'[v] \in 0 .. Len(config'[v].profiles)
    BY <2>1, <2>3, <2>5, ProfileConstants DEF Typed, ProfilesTypeOK
  <2>8. QED
    BY <1>0, <2>1, <2>5, <2>6, <2>7 DEF Typed, ProfilesTypeOK, Fits
<1>4. CASE UNCHANGED profilesVars
  BY <1>4 DEF profilesVars, Typed, ProfilesTypeOK, Fits
<1>5. QED
  BY <1>1, <1>2, <1>3, <1>4, EditingTyped, EditorsOpen DEF ProfilesNext, Typed

\* Every variable keeps its type, and an editor is open on an entry that is there.
THEOREM ProfilesTypesKept == ProfilesSpec => []ProfilesTypeOK
<1>1. Typed => ProfilesTypeOK
  BY DEF Typed
<1>2. QED
  BY InitTyped, InductiveTyped, <1>1, PTL DEF ProfilesSpec

-----------------------------------------------------------------------------
(* One window, and a keyring that takes what it is given: the file is the   *)
(* old one until the first window opens, and from then on the keyring has   *)
(* the passwords of its profiles and no other, and the window agrees with   *)
(* it, its editor too.                                                      *)

Alone == ~RingFails /\ \A v, w \in Windows : v = w

\* No two profiles share a name, but for those in names.
Distinct(profiles, names) ==
    \A i, j \in DOMAIN profiles : profiles[i].name = profiles[j].name =>
                                    i = j \/ profiles[i].name \in names

InRing(ring, cfg, names) ==
    \A i \in DOMAIN cfg.profiles :
        cfg.profiles[i].name \notin names =>
            ring[cfg.profiles[i].name] = cfg.profiles[i].given

NoneLeft(ring, cfg) == \A n \in Names : ring[n] # NoEntry =>
                           \E i \in DOMAIN cfg.profiles : cfg.profiles[i].name = n

Old == /\ open = {} /\ \A n \in Names : keyring[n] = NoEntry
       /\ \A i \in DOMAIN file.profiles : file.profiles[i].password = file.profiles[i].given

Kept == /\ InRing(keyring, file, mixed) /\ NoneLeft(keyring, file)
        /\ \A i \in DOMAIN file.profiles : file.profiles[i].password = Empty

Agrees(w) ==
    /\ Same(config[w], file) /\ shown[w] = Selected(config[w])
    /\ dialog[w].kind = "edit" =>
        LET profile == config[w].profiles[dialog[w].idx]
        IN  /\ dialog[w].name = profile.name
            /\ profile.name \notin mixed => dialog[w].password = profile.given

OneWindow == Distinct(file.profiles, mixed) /\ (Old \/ Kept) /\ \A w \in open : Agrees(w)

\* What two such configurations have in common.
LEMMA SameIsEnough ==
    ASSUME NEW a \in AppConfig, NEW b \in AppConfig, Same(a, b), NEW ring, NEW names
    PROVE  /\ Distinct(a.profiles, names) = Distinct(b.profiles, names)
           /\ Selected(a) = Selected(b)
           /\ InRing(ring, a, names) = InRing(ring, b, names)
           /\ NoneLeft(ring, a) = NoneLeft(ring, b)
<1>1. Distinct(a.profiles, names) = Distinct(b.profiles, names)
  BY DEF Same, Distinct
<1>2. InRing(ring, a, names) = InRing(ring, b, names) /\ NoneLeft(ring, a) = NoneLeft(ring, b)
  BY DEF Same, InRing, NoneLeft
<1>3. a.profiles \in Seq(ProfileConfig) /\ b.profiles \in Seq(ProfileConfig)
  BY BoundedIsSeq DEF AppConfig
<1>4. \A s \in Seq(ProfileConfig) : s = <<>> <=> DOMAIN s = {}
  BY EmptySeq, LenProperties
<1>5. a.profiles = <<>> <=> b.profiles = <<>>
  BY <1>3, <1>4 DEF Same
<1>6. Selected(a) = Selected(b)
  BY <1>5 DEF Same, Selected
<1>7. QED
  BY <1>1, <1>2, <1>6

\* The observer has every name that two profiles share.
LEMMA SharedIsAll ==
    ASSUME NEW s \in BoundedProfiles, NEW names, Shared(s) \subseteq names
    PROVE  Distinct(s, names)
<1>1. \A i \in DOMAIN s : s[i].name \in Names
  BY BoundedIsSeq DEF ProfileConfig
<1>2. QED
  BY <1>1 DEF Distinct, Shared

\* A handler that commits a configuration whose names are its own and whose
\* passwords are those of the keyring.
LEMMA CommitAgrees ==
    ASSUME Typed, Alone, NEW w \in Windows, NEW cfg \in AppConfig, Commit(w, cfg),
           open' \subseteq Windows, Distinct(cfg.profiles, mixed'),
           InRing(keyring', cfg, mixed'), NoneLeft(keyring', cfg)
    PROVE  OneWindow'
<1>1. /\ file' \in AppConfig /\ Same(file', cfg)
      /\ \A i \in DOMAIN file'.profiles : file'.profiles[i].password = Empty
  BY SavedIsSame DEF Commit
<1>2. /\ Distinct(file'.profiles, mixed')
      /\ InRing(keyring', file', mixed') /\ NoneLeft(keyring', file')
  BY <1>1, SameIsEnough
<1>3. Kept'
  BY <1>1, <1>2 DEF Kept, InRing, NoneLeft
<1>4. /\ config'[w] = cfg /\ shown'[w] = Selected(cfg) /\ dialog'[w] = Closed
  BY DEF Commit, Typed, ProfilesTypeOK
<1>5. Agrees(w)'
  <2>1. Same(cfg, file')
    BY <1>1 DEF Same
  <2>2. dialog'[w].kind # "edit"
    BY <1>4 DEF Closed
  <2>3. Same(config'[w], file')
    BY <1>4, <2>1
  <2>4. QED
    BY <1>4, <2>2, <2>3 DEF Agrees, Same, Selected
<1>6. \A v \in open' : v = w
  BY DEF Alone
<1>7. Distinct(file.profiles, mixed)'
  BY <1>2 DEF Distinct
<1>8. QED
  BY <1>3, <1>5, <1>6, <1>7 DEF OneWindow

\* What the handlers find: the window's profiles and the keyring.
LEMMA WindowFinds ==
    ASSUME Typed, OneWindow, NEW w \in open
    PROVE  /\ w \in Windows /\ config[w] \in AppConfig /\ Distinct(config[w].profiles, mixed)
           /\ InRing(keyring, config[w], mixed) /\ NoneLeft(keyring, config[w]) /\ Agrees(w)
           /\ DOMAIN config[w].profiles = 1 .. Len(config[w].profiles)
           /\ Len(config[w].profiles) \in Nat
           /\ \A i \in 1 .. Len(config[w].profiles) :
                /\ config[w].profiles[i] \in ProfileConfig
                /\ config[w].profiles[i].name \in Names
                /\ config[w].profiles[i].given \in Passwords
                /\ config[w].profiles[i].name \notin mixed =>
                       keyring[config[w].profiles[i].name] = config[w].profiles[i].given
<1>1. w \in Windows /\ config[w] \in AppConfig /\ file \in AppConfig
  BY DEF Typed, ProfilesTypeOK
<1>2. Agrees(w) /\ Kept /\ Distinct(file.profiles, mixed)
  BY DEF OneWindow, Old
<1>3. /\ Distinct(config[w].profiles, mixed)
      /\ InRing(keyring, config[w], mixed) /\ NoneLeft(keyring, config[w])
  BY <1>1, <1>2, SameIsEnough DEF Agrees, Kept
<1>4. /\ DOMAIN config[w].profiles = 1 .. Len(config[w].profiles)
      /\ Len(config[w].profiles) \in Nat
      /\ \A i \in 1 .. Len(config[w].profiles) : config[w].profiles[i] \in ProfileConfig
  BY <1>1, BoundedIsSeq, ProfileConstants DEF AppConfig
<1>5. QED
  BY <1>1, <1>2, <1>3, <1>4 DEF InRing, ProfileConfig

LEMMA AddAgrees ==
    ASSUME Typed, Alone, OneWindow, NEW w \in Windows, NEW name \in Names,
           NEW password \in Passwords, SaveAdd(w, name, password)
    PROVE  OneWindow'
<1> DEFINE old == config[w].profiles
           n   == Len(old)
           cfg == Added(w, name, password)
           new == cfg.profiles
<1>1. /\ dialog[w].kind = "add" /\ Commit(w, cfg) /\ open' = open /\ w \in open
      /\ keyring' = [keyring EXCEPT ![name] = password] /\ Mix(new, {})
  BY SaveAddCommits DEF Alone
<1>2. /\ NoneLeft(keyring, config[w]) /\ DOMAIN old = 1 .. n /\ n \in Nat
      /\ \A i \in 1 .. n :
            /\ old[i].name \in Names
            /\ old[i].name \notin mixed => keyring[old[i].name] = old[i].given
  BY <1>1, WindowFinds
<1>3. /\ cfg \in AppConfig /\ DOMAIN new = 1 .. n + 1
      /\ \A i \in 1 .. n : new[i] = old[i]
      /\ new[n + 1] = [name |-> name, password |-> password, given |-> password]
  BY <1>1, AddedTyped
<1>4. Distinct(new, mixed') /\ mixed \subseteq mixed'
  BY <1>1, <1>3, SharedIsAll DEF Mix, AppConfig
<1>5. \A m \in Names : keyring'[m] = IF m = name THEN password ELSE keyring[m]
  BY <1>1 DEF Typed, ProfilesTypeOK
<1> HIDE DEF cfg, n
<1>6. \A i \in 1 .. n + 1 : i = n + 1 \/ i \in 1 .. n
  BY <1>2
<1>7. n + 1 \in 1 .. n + 1 /\ \A i \in 1 .. n : i \in 1 .. n + 1
  BY <1>2
<1>8. \A i \in 1 .. n : old[i].name = name => name \in mixed'
  <2> SUFFICES ASSUME NEW i \in 1 .. n, old[i].name = name
               PROVE  name \in mixed'
    OBVIOUS
  <2>1. new[i].name = name /\ new[n + 1].name = name /\ i # n + 1
    BY <1>2, <1>3
  <2>2. QED
    BY <1>3, <1>4, <1>7, <2>1 DEF Distinct
<1>9. InRing(keyring', cfg, mixed')
  <2> SUFFICES ASSUME NEW i \in 1 .. n + 1, new[i].name \notin mixed'
               PROVE  keyring'[new[i].name] = new[i].given
    BY <1>3 DEF InRing
  <2>1. CASE i = n + 1
    BY <1>3, <1>5, <2>1
  <2>2. CASE i \in 1 .. n
    BY <1>2, <1>3, <1>4, <1>5, <1>8, <2>2
  <2>3. QED
    BY <1>6, <2>1, <2>2
<1>10. NoneLeft(keyring', cfg)
  <2> SUFFICES ASSUME NEW m \in Names, keyring'[m] # NoEntry
               PROVE  \E i \in 1 .. n + 1 : new[i].name = m
    BY <1>3 DEF NoneLeft
  <2>1. CASE m = name
    BY <1>3, <1>7, <2>1
  <2>2. CASE m # name
    <3>1. PICK i \in 1 .. n : old[i].name = m
      BY <1>2, <1>5, <2>2 DEF NoneLeft
    <3>2. QED
      BY <1>3, <1>7, <3>1
  <2>3. QED
    BY <2>1, <2>2
<1>11. QED
  BY <1>1, <1>3, <1>4, <1>9, <1>10, CommitAgrees DEF Typed, ProfilesTypeOK

LEMMA EditAgrees ==
    ASSUME Typed, Alone, OneWindow, NEW w \in Windows, NEW name \in Names,
           NEW typed \in Passwords \cup {NoEntry}, SaveEdit(w, name, typed)
    PROVE  OneWindow'
<1> DEFINE old == config[w].profiles
           n   == Len(old)
           idx == dialog[w].idx
           profile == Edited(w, name, typed)
           cfg == Changed(w, profile)
           new == cfg.profiles
<1>1. /\ dialog[w].kind = "edit" /\ Commit(w, cfg) /\ open' = open /\ w \in open
      /\ Entries(w, name, profile.password)
      /\ Mix(new, IF typed = NoEntry /\ dialog[w].name \in mixed THEN {name} ELSE {})
  BY SaveEditCommits
<1>2. /\ Distinct(old, mixed) /\ NoneLeft(keyring, config[w]) /\ DOMAIN old = 1 .. n
      /\ n \in Nat /\ Agrees(w)
      /\ \A i \in 1 .. n :
            /\ old[i].name \in Names /\ old[i].given \in Passwords
            /\ old[i].name \notin mixed => keyring[old[i].name] = old[i].given
  BY <1>1, WindowFinds
<1>3. /\ idx \in 1 .. n /\ dialog[w].name = old[idx].name
      /\ dialog[w].name \notin mixed => dialog[w].password = old[idx].given
  BY <1>1, <1>2 DEF Typed, Fits, Agrees
<1>4. /\ profile \in ProfileConfig /\ profile.name = name
      /\ name \notin mixed' => profile.password = profile.given
  <2>1. profile \in ProfileConfig
    BY <1>1, EditedTyped
  <2>2. QED
    BY <1>1, <1>3, <2>1 DEF Edited, Mix
<1> HIDE DEF profile
<1>5. /\ cfg \in AppConfig /\ DOMAIN new = 1 .. n
      /\ \A i \in 1 .. n : new[i] = IF i = idx THEN profile ELSE old[i]
  BY <1>1, <1>4, ChangedTyped
<1>6. Distinct(new, mixed') /\ mixed \subseteq mixed'
  BY <1>1, <1>5, SharedIsAll DEF Mix, AppConfig
<1>7. \A m \in Names : keyring'[m] = IF m = name THEN profile.password
                                     ELSE IF m = dialog[w].name THEN NoEntry ELSE keyring[m]
  <2>1. keyring \in [Names -> Passwords \cup {Empty, NoEntry}] /\ Granted = {TRUE}
    BY DEF Typed, ProfilesTypeOK, Granted, Alone
  <2>2. dialog[w].name \in Names
    BY <1>2, <1>3
  <2>3. QED
    BY <1>1, <1>4, <2>1, <2>2 DEF Entries, store_password, delete_password
<1> HIDE DEF cfg, n, idx
<1>8. \A i \in 1 .. n : i # idx /\ old[i].name \notin mixed' =>
                            old[i].name # name /\ old[i].name # dialog[w].name
  <2> SUFFICES ASSUME NEW i \in 1 .. n, i # idx, old[i].name \notin mixed'
               PROVE  old[i].name # name /\ old[i].name # dialog[w].name
    OBVIOUS
  <2>1. new[i] = old[i] /\ new[idx].name = name
    BY <1>3, <1>4, <1>5
  <2>2. old[i].name # name
    BY <1>3, <1>5, <1>6, <2>1 DEF Distinct
  <2>3. old[i].name # dialog[w].name
    BY <1>2, <1>3, <1>6 DEF Distinct
  <2>4. QED
    BY <2>2, <2>3
<1>9. InRing(keyring', cfg, mixed')
  <2> SUFFICES ASSUME NEW i \in 1 .. n, new[i].name \notin mixed'
               PROVE  keyring'[new[i].name] = new[i].given
    BY <1>5 DEF InRing
  <2>1. CASE i = idx
    BY <1>4, <1>5, <1>7, <2>1
  <2>2. CASE i # idx
    BY <1>2, <1>5, <1>6, <1>7, <1>8, <2>2
  <2>3. QED
    BY <2>1, <2>2
<1>10. NoneLeft(keyring', cfg)
  <2> SUFFICES ASSUME NEW m \in Names, keyring'[m] # NoEntry
               PROVE  \E i \in 1 .. n : new[i].name = m
    BY <1>5 DEF NoneLeft
  <2>1. CASE m = name
    BY <1>3, <1>4, <1>5, <2>1
  <2>2. CASE m # name
    <3>1. m # dialog[w].name /\ keyring[m] # NoEntry
      BY <1>7, <2>2
    <3>2. PICK i \in 1 .. n : old[i].name = m
      BY <1>2, <3>1 DEF NoneLeft
    <3>3. i # idx
      BY <1>3, <3>1, <3>2
    <3>4. QED
      BY <1>5, <3>2, <3>3
  <2>3. QED
    BY <2>1, <2>2
<1>11. QED
  BY <1>1, <1>5, <1>6, <1>9, <1>10, CommitAgrees DEF Typed, ProfilesTypeOK

LEMMA DeleteAgrees ==
    ASSUME Typed, Alone, OneWindow, NEW w \in Windows, DeleteProfile(w)
    PROVE  OneWindow'
<1> DEFINE old == config[w].profiles
           n   == Len(old)
           idx == dialog[w].idx
           cfg == Left(w)
           new == cfg.profiles
<1>1. /\ dialog[w].kind = "edit" /\ Commit(w, cfg) /\ w \in open
      /\ UNCHANGED <<open, mixed>> /\ keyring' = [keyring EXCEPT ![dialog[w].name] = NoEntry]
  BY DeleteCommits DEF Alone
<1>2. /\ Distinct(old, mixed) /\ NoneLeft(keyring, config[w]) /\ DOMAIN old = 1 .. n
      /\ n \in Nat /\ Agrees(w)
      /\ \A i \in 1 .. n :
            /\ old[i].name \in Names
            /\ old[i].name \notin mixed => keyring[old[i].name] = old[i].given
  BY <1>1, WindowFinds
<1>3. idx \in 1 .. n /\ dialog[w].name = old[idx].name
  BY <1>1, <1>2 DEF Typed, Fits, Agrees
<1>4. /\ cfg \in AppConfig /\ DOMAIN new = 1 .. n - 1
      /\ \A i \in 1 .. n - 1 : new[i] = IF i < idx THEN old[i] ELSE old[i + 1]
  BY <1>1, LeftIsTyped
<1>5. \A m \in Names : keyring'[m] = IF m = dialog[w].name THEN NoEntry ELSE keyring[m]
  BY <1>1 DEF Typed, ProfilesTypeOK
<1> HIDE DEF cfg, n, idx
<1> DEFINE Was(i) == IF i < idx THEN i ELSE i + 1
<1>6. /\ \A i \in 1 .. n - 1 : Was(i) \in 1 .. n /\ Was(i) # idx /\ new[i] = old[Was(i)]
      /\ \A i, j \in 1 .. n - 1 : Was(i) = Was(j) => i = j
      /\ \A k \in 1 .. n : k # idx => \E i \in 1 .. n - 1 : Was(i) = k
  <2>1. \A i \in 1 .. n - 1 : Was(i) \in 1 .. n /\ Was(i) # idx /\ new[i] = old[Was(i)]
    <3>1. n \in Nat /\ idx \in 1 .. n
      BY <1>2, <1>3
    <3>2. \A i \in 1 .. n - 1 : Was(i) \in 1 .. n /\ Was(i) # idx
      BY <3>1
    <3>3. \A i \in 1 .. n - 1 : new[i] = old[Was(i)]
      BY <1>4
    <3>4. QED
      BY <3>2, <3>3
  <2>2. \A i, j \in 1 .. n - 1 : Was(i) = Was(j) => i = j
    BY <1>2, <1>3
  <2>3. ASSUME NEW k \in 1 .. n, k # idx
        PROVE  \E i \in 1 .. n - 1 : Was(i) = k
    <3>1. CASE k < idx
      <4>1. k \in 1 .. n - 1 /\ Was(k) = k
        BY <1>2, <1>3, <3>1
      <4>2. QED
        BY <4>1
    <3>2. CASE k > idx
      <4>1. k - 1 \in 1 .. n - 1 /\ Was(k - 1) = k
        BY <1>2, <1>3, <3>2
      <4>2. QED
        BY <4>1
    <3>3. QED
      BY <1>2, <1>3, <2>3, <3>1, <3>2
  <2>4. QED
    BY <2>1, <2>2, <2>3
<1> HIDE DEF Was
<1>7. \A k \in 1 .. n : k # idx /\ old[k].name \notin mixed => old[k].name # dialog[w].name
  BY <1>2, <1>3 DEF Distinct
<1>8. Distinct(new, mixed)
  <2> SUFFICES ASSUME NEW i \in 1 .. n - 1, NEW j \in 1 .. n - 1, new[i].name = new[j].name,
                      new[i].name \notin mixed
               PROVE  i = j
    BY <1>4 DEF Distinct
  <2>1. /\ Was(i) \in 1 .. n /\ Was(j) \in 1 .. n /\ old[Was(i)].name = old[Was(j)].name
        /\ old[Was(i)].name \notin mixed
    BY <1>6
  <2>2. Was(i) = Was(j)
    BY <1>2, <2>1 DEF Distinct
  <2>3. QED
    BY <1>6, <2>2
<1>9. InRing(keyring', cfg, mixed)
  <2> SUFFICES ASSUME NEW i \in 1 .. n - 1, new[i].name \notin mixed
               PROVE  keyring'[new[i].name] = new[i].given
    BY <1>4 DEF InRing
  <2>1. Was(i) \in 1 .. n /\ Was(i) # idx /\ new[i] = old[Was(i)]
    BY <1>6
  <2>2. old[Was(i)].name # dialog[w].name /\ keyring[old[Was(i)].name] = old[Was(i)].given
    BY <1>2, <1>7, <2>1
  <2>3. QED
    BY <1>2, <1>5, <2>1, <2>2
<1>10. NoneLeft(keyring', cfg)
  <2> SUFFICES ASSUME NEW m \in Names, keyring'[m] # NoEntry
               PROVE  \E i \in 1 .. n - 1 : new[i].name = m
    BY <1>4 DEF NoneLeft
  <2>1. m # dialog[w].name /\ keyring[m] # NoEntry
    BY <1>5
  <2>2. PICK k \in 1 .. n : old[k].name = m
    BY <1>2, <2>1 DEF NoneLeft
  <2>3. k # idx
    BY <1>3, <2>1, <2>2
  <2>4. QED
    BY <1>6, <2>2, <2>3
<1>11. QED
  BY <1>1, <1>4, <1>8, <1>9, <1>10, CommitAgrees DEF Typed, ProfilesTypeOK

\* The first window moves the passwords of an old file to the keyring; a later one
\* finds none to move.
LEMMA OpenAgrees ==
    ASSUME Typed, Alone, OneWindow, NEW w \in Windows, OpenWindow(w)
    PROVE  OneWindow'
<1>1. w \notin open /\ open' = open \cup {w} /\ UNCHANGED <<dialog, mixed>> /\ dialog[w] = Closed
      /\ migrate_passwords(w, Unmigrated)
      /\ shown' = [shown EXCEPT ![w] = Selected(config'[w])]
  BY DEF OpenWindow, Alone, Typed
<1>2. /\ config'[w] \in AppConfig /\ Same(config'[w], file)
      /\ file' \in AppConfig /\ Same(file', file) /\ file \in AppConfig
  BY <1>1, OpenedTyped DEF Typed, ProfilesTypeOK
<1>3. file.profiles \in BoundedProfiles /\ keyring \in [Names -> Passwords \cup {Empty, NoEntry}]
      /\ shown \in [Windows -> 0 .. MaxProfiles]
  BY DEF Typed, ProfilesTypeOK, AppConfig
<1>4. \A i \in DOMAIN file.profiles : /\ file.profiles[i].name \in Names
                                      /\ file.profiles[i].given \in Passwords
  BY <1>3, BoundedIsSeq DEF ProfileConfig
<1>5. \A n \in Names :
        LET namesakes == {i \in Unmigrated : file.profiles[i].name = n}
        IN  \/ namesakes = {} /\ keyring'[n] = keyring[n]
            \/ \E i \in namesakes : keyring'[n] = file.profiles[i].password
  <2> DEFINE Takes(ring, n) ==
        LET namesakes == {i \in Unmigrated : file.profiles[i].name = n}
        IN  \/ namesakes = {} /\ ring[n] = keyring[n]
            \/ \E i \in namesakes : /\ \A j \in namesakes : j <= i
                                    /\ ring[n] = file.profiles[i].password
  <2>1. PICK ring : keyring' = ring /\ \A n \in Names : Takes(ring, n)
    BY <1>1, Zenon DEF migrate_passwords
  <2>2. \A n \in Names : Takes(keyring', n)
    BY <2>1
  <2>3. QED
    BY <2>2
<1>6. Distinct(file.profiles, mixed) /\ (Old \/ Kept)
  BY DEF OneWindow
<1>7. \A i \in DOMAIN file'.profiles : file'.profiles[i].password = Empty
  <2>1. CASE Unmigrated = {}
    BY <1>1, <2>1 DEF migrate_passwords, Unmigrated
  <2>2. CASE Unmigrated # {}
    BY <1>1, <1>2, <2>2, SavedIsSame DEF migrate_passwords
  <2>3. QED
    BY <2>1, <2>2
<1>8. InRing(keyring', file, mixed) /\ NoneLeft(keyring', file)
  <2>1. CASE Old
    <3>1. Unmigrated = DOMAIN file.profiles
      <4>1. Empty \notin Passwords
        BY ProfileConstants
      <4>2. QED
        BY <1>4, <2>1, <4>1 DEF Old, Unmigrated
    <3>2. ASSUME NEW i \in DOMAIN file.profiles, file.profiles[i].name \notin mixed
          PROVE  keyring'[file.profiles[i].name] = file.profiles[i].given
      <4> DEFINE m == file.profiles[i].name
                 namesakes == {j \in Unmigrated : file.profiles[j].name = m}
      <4>1. i \in namesakes /\ m \in Names
        BY <1>4, <3>1
      <4>2. \A j \in namesakes : j = i
        BY <1>6, <3>1, <3>2 DEF Distinct
      <4>3. keyring'[m] = file.profiles[i].password
        BY <1>5, <4>1, <4>2
      <4>4. QED
        BY <2>1, <4>3 DEF Old
    <3>3. ASSUME NEW n \in Names, keyring'[n] # NoEntry
          PROVE  \E i \in DOMAIN file.profiles : file.profiles[i].name = n
      <4>1. keyring[n] = NoEntry
        BY <2>1 DEF Old
      <4>2. \E i \in Unmigrated : file.profiles[i].name = n
        BY <1>5, <3>3, <4>1
      <4>3. QED
        BY <3>1, <4>2
    <3>4. QED
      BY <3>2, <3>3 DEF InRing, NoneLeft
  <2>2. CASE Kept
    <3>1. Unmigrated = {}
      BY <2>2 DEF Kept, Unmigrated
    <3>2. keyring' = keyring
      <4>1. keyring' \in [Names -> Passwords \cup {Empty, NoEntry}]
        BY <1>1, OpenedTyped
      <4>2. \A n \in Names : keyring'[n] = keyring[n]
        BY <1>5, <3>1
      <4>3. QED
        BY <1>3, <4>1, <4>2
    <3>3. QED
      BY <2>2, <3>2 DEF Kept
  <2>3. QED
    BY <1>6, <2>1, <2>2
<1>9. /\ Distinct(file'.profiles, mixed) /\ InRing(keyring', file', mixed)
      /\ NoneLeft(keyring', file')
  BY <1>2, <1>6, <1>8, SameIsEnough
<1>10. Kept'
  BY <1>1, <1>7, <1>9 DEF Kept, InRing, NoneLeft
<1>11. Agrees(w)'
  <2>1. Same(config'[w], file')
    BY <1>2 DEF Same
  <2>2. shown'[w] = Selected(config'[w])
    BY <1>1, <1>3
  <2>3. dialog'[w].kind # "edit"
    BY <1>1 DEF Closed
  <2>4. QED
    BY <2>1, <2>2, <2>3 DEF Agrees, Same, Selected
<1>12. open' = {w}
  BY <1>1 DEF Alone, Typed, ProfilesTypeOK
<1>13. Distinct(file.profiles, mixed)'
  BY <1>1, <1>9 DEF Distinct
<1>14. QED
  BY <1>10, <1>11, <1>12, <1>13 DEF OneWindow

LEMMA SelectAgrees ==
    ASSUME Typed, Alone, OneWindow, NEW w \in Windows, NEW i \in 1 .. MaxProfiles, Select(w, i)
    PROVE  OneWindow'
<1> DEFINE cfg == [config[w] EXCEPT !.last_selected = i]
<1>1. /\ w \in open /\ dialog[w] = Closed /\ i \in DOMAIN config[w].profiles
      /\ config' = [config EXCEPT ![w] = cfg] /\ shown' = [shown EXCEPT ![w] = i]
      /\ save_config(config'[w]) /\ UNCHANGED <<keyring, open, dialog, mixed>>
  BY DEF Select, Free, Typed, ProfilesTypeOK
<1>2. /\ config[w] \in AppConfig /\ Distinct(config[w].profiles, mixed)
      /\ InRing(keyring, config[w], mixed) /\ NoneLeft(keyring, config[w])
  BY <1>1, WindowFinds
<1>3. /\ cfg \in AppConfig /\ cfg.profiles = config[w].profiles /\ cfg.last_selected = i
  BY <1>2, ProfileConstants DEF AppConfig
<1> HIDE DEF cfg
<1>4. Selected(cfg) = i
  BY <1>1, <1>3 DEF Selected
<1>5. Distinct(cfg.profiles, mixed) /\ InRing(keyring, cfg, mixed) /\ NoneLeft(keyring, cfg)
  BY <1>2, <1>3 DEF InRing, NoneLeft
<1>6. config'[w] = cfg
  BY <1>1 DEF Typed, ProfilesTypeOK
<1>7. Commit(w, cfg)
  <2>1. dialog' = [dialog EXCEPT ![w] = Closed]
    BY <1>1 DEF Typed, ProfilesTypeOK
  <2>2. QED
    BY <1>1, <1>4, <1>6, <2>1 DEF Commit
<1>8. QED
  BY <1>1, <1>3, <1>5, <1>7, CommitAgrees DEF Typed, ProfilesTypeOK

\* What opens or cancels an editor, or closes the window, leaves file and keyring.
LEMMA DialogAgrees ==
    ASSUME Typed, Alone, OneWindow, NEW w \in Windows,
           OpenAdd(w) \/ OpenEdit(w) \/ Cancel(w) \/ CloseWindow(w)
    PROVE  OneWindow'
<1>1. CASE CloseWindow(w)
  <2>1. open' = {} /\ UNCHANGED <<file, keyring, mixed>>
    BY <1>1 DEF CloseWindow, Alone, Typed, ProfilesTypeOK
  <2>2. w \in open /\ (Old \/ Kept) /\ Distinct(file.profiles, mixed)
    BY <1>1 DEF CloseWindow, OneWindow
  <2>3. QED
    BY <2>1, <2>2 DEF OneWindow, Old, Kept, InRing, NoneLeft, Distinct
<1>2. CASE OpenAdd(w) \/ OpenEdit(w) \/ Cancel(w)
  <2>1. UNCHANGED <<file, keyring, open, config, shown, mixed>> /\ w \in open
    BY <1>2 DEF OpenAdd, OpenEdit, Cancel, Free
  <2>2. \A v \in open : v = w
    BY DEF Alone, Typed, ProfilesTypeOK
  <2>3. ASSUME dialog'[w].kind = "edit"
        PROVE  /\ dialog'[w].name = config[w].profiles[dialog'[w].idx].name
               /\ dialog'[w].name \notin mixed =>
                      dialog'[w].password = config[w].profiles[dialog'[w].idx].given
    <3>1. dialog \in [Windows -> Editors]
      BY DEF Typed, ProfilesTypeOK
    <3>2. ~OpenAdd(w) /\ ~Cancel(w)
      <4>1. OpenAdd(w) => dialog'[w].kind = "add"
        BY <3>1 DEF OpenAdd, Editors
      <4>2. Cancel(w) => dialog'[w].kind = "closed"
        BY <3>1 DEF Cancel, Closed
      <4>3. QED
        BY <2>3, <4>1, <4>2
    <3>3. CASE OpenEdit(w)
      <4> DEFINE existing == config[w].profiles[shown[w]]
      <4>1. shown[w] \in DOMAIN config[w].profiles
            /\ dialog' = [dialog EXCEPT ![w] =
                  [kind |-> "edit", idx |-> shown[w], name |-> existing.name,
                   password |-> retrieve_password(existing.name, TRUE)]]
        BY <3>3 DEF OpenEdit, Granted, Alone
      <4>2. /\ existing.name \notin mixed => keyring[existing.name] = existing.given
            /\ existing.given \in Passwords
        BY <2>1, <4>1, WindowFinds
      <4>3. existing.name \notin mixed => retrieve_password(existing.name, TRUE) = existing.given
        BY <4>2, ProfileConstants DEF retrieve_password
      <4>4. QED
        BY <3>1, <4>1, <4>3
    <3>4. QED
      BY <1>2, <3>2, <3>3
  <2>4. Agrees(w)
    BY <2>1 DEF OneWindow
  <2>5. Agrees(w)'
    BY <2>1, <2>3, <2>4 DEF Agrees, Same, Selected
  <2>6. QED
    BY <2>1, <2>2, <2>5 DEF OneWindow, Old, Kept, InRing, NoneLeft, Distinct
<1>3. QED
  BY <1>1, <1>2

LEMMA InductiveOneWindow == Alone /\ Typed /\ OneWindow /\ [ProfilesNext]_profilesVars => OneWindow'
<1> SUFFICES ASSUME Alone, Typed, OneWindow, [ProfilesNext]_profilesVars
             PROVE  OneWindow'
  OBVIOUS
<1>1. CASE UNCHANGED profilesVars
  BY <1>1 DEF profilesVars, OneWindow, Old, Kept, InRing, NoneLeft, Distinct, Agrees, Same, Selected
<1>2. CASE ProfilesNext
  BY <1>2, OpenAgrees, SelectAgrees, DialogAgrees, AddAgrees, EditAgrees, DeleteAgrees
     DEF ProfilesNext, Editing
<1>3. QED
  BY <1>1, <1>2

LEMMA InitOneWindow == ProfilesInit => OneWindow
<1> SUFFICES ASSUME ProfilesInit
             PROVE  OneWindow
  OBVIOUS
<1>1. open = {} /\ \A n \in Names : keyring[n] = NoEntry
  BY DEF ProfilesInit
<1>2. CASE file = DefaultConfig
  <2>1. DOMAIN file.profiles = {}
    BY <1>2 DEF DefaultConfig
  <2>2. QED
    BY <1>1, <2>1 DEF OneWindow, Old, Distinct
<1>3. CASE file # DefaultConfig
  <2>1. file.profiles \in BoundedProfiles /\ Shared(file.profiles) \subseteq mixed
    BY <1>3 DEF ProfilesInit, AppConfig
  <2>2. Distinct(file.profiles, mixed)
    BY <2>1, SharedIsAll
  <2>3. QED
    BY <1>1, <1>3, <2>2 DEF ProfilesInit, OneWindow, Old
<1>4. QED
  BY <1>2, <1>3

LEMMA AlwaysOneWindow == ASSUME Alone PROVE ProfilesSpec => [](Typed /\ OneWindow)
  BY InitTyped, InductiveTyped, InitOneWindow, InductiveOneWindow, PTL DEF ProfilesSpec

\* With one window and a keyring that does what it is asked, every profile whose name
\* no other has had connects with the password its user gave it last, for any
\* profiles beside it, names they share among themselves included, in any order of
\* additions, edits, deletions, starts, and from a file of either version
\* (window.rs:134-213, config.rs:141-193).
THEOREM PasswordsStayTheirs ==
    ASSUME ~RingFails, \A v, w \in Windows : v = w
    PROVE  ProfilesSpec => []OwnPassword
<1>1. Typed /\ OneWindow => OwnPassword
  <2> SUFFICES ASSUME Typed, OneWindow
               PROVE  OwnPassword
    OBVIOUS
  <2>1. ASSUME NEW i \in DOMAIN file.profiles, file.profiles[i].name \notin mixed
        PROVE  Connects(file.profiles[i]) = file.profiles[i].given
    <3>1. file.profiles[i].given \in Passwords /\ file.profiles[i].name \in Names
      BY BoundedIsSeq DEF Typed, ProfilesTypeOK, AppConfig, ProfileConfig
    <3>2. QED
      BY <2>1, <3>1, ProfileConstants DEF OneWindow, Old, Kept, InRing, Connects
  <2>2. ASSUME NEW w \in open, NEW i \in DOMAIN config[w].profiles,
               config[w].profiles[i].name \notin mixed
        PROVE  Connects(config[w].profiles[i]) = config[w].profiles[i].given
    BY <2>2, WindowFinds, ProfileConstants DEF Connects
  <2>3. QED
    BY <2>1, <2>2 DEF OwnPassword, ToSet
<1>2. QED
  BY <1>1, AlwaysOneWindow, PTL DEF Alone

\* There the keyring has no entry but those of the profiles of the file: none of a
\* profile that was deleted or of a name that was given up.
THEOREM NoEntryOutlivesItsProfile ==
    ASSUME ~RingFails, \A v, w \in Windows : v = w
    PROVE  ProfilesSpec => []NoPasswordLeft
<1>1. Typed /\ OneWindow => NoPasswordLeft
  BY DEF OneWindow, Old, Kept, NoneLeft, NoPasswordLeft, ToSet
<1>2. QED
  BY <1>1, AlwaysOneWindow, PTL DEF Alone

-----------------------------------------------------------------------------
(* What the window shows is what the file says, also when the keyring       *)
(* refuses what it is asked.                                                *)

AsInFile == \A w \in open : Same(config[w], file) /\ shown[w] = Selected(config[w])

LEMMA CommitAsInFile ==
    ASSUME Typed, \A v, w \in Windows : v = w, NEW w \in Windows, NEW cfg \in AppConfig,
           Commit(w, cfg), open' = open
    PROVE  AsInFile'
<1>1. Same(file', cfg)
  BY SavedIsSame DEF Commit
<1>2. config'[w] = cfg /\ shown'[w] = Selected(cfg)
  BY DEF Commit, Typed, ProfilesTypeOK
<1>3. \A v \in open' : v = w
  BY DEF Typed, ProfilesTypeOK
<1>4. Same(config'[w], file')
  BY <1>1, <1>2 DEF Same
<1>5. QED
  BY <1>2, <1>3, <1>4 DEF AsInFile, Same, Selected

LEMMA InductiveAsInFile ==
    ASSUME \A v, w \in Windows : v = w
    PROVE  Typed /\ AsInFile /\ [ProfilesNext]_profilesVars => AsInFile'
<1> SUFFICES ASSUME Typed, AsInFile, [ProfilesNext]_profilesVars
             PROVE  AsInFile'
  OBVIOUS
<1>1. ASSUME NEW w \in Windows, OpenWindow(w)
      PROVE  AsInFile'
  <2>1. PICK moved \in SUBSET Unmigrated : migrate_passwords(w, moved)
    BY <1>1 DEF OpenWindow
  <2>2. Same(config'[w], file) /\ Same(file', file)
    BY <2>1, OpenedTyped
  <2>3. Same(config'[w], file')
    BY <2>2 DEF Same
  <2>4. shown'[w] = Selected(config'[w])
    BY <1>1 DEF OpenWindow, Typed, ProfilesTypeOK
  <2>5. \A v \in open' : v = w
    BY <1>1 DEF OpenWindow, Typed, ProfilesTypeOK
  <2>6. QED
    BY <2>3, <2>4, <2>5 DEF AsInFile, Same, Selected
<1>2. ASSUME NEW w \in Windows, NEW i \in 1 .. MaxProfiles, Select(w, i)
      PROVE  AsInFile'
  <2> DEFINE cfg == [config[w] EXCEPT !.last_selected = i]
  <2>1. config[w] \in AppConfig
    BY DEF Typed, ProfilesTypeOK
  <2>2. cfg \in AppConfig /\ cfg.profiles = config[w].profiles /\ cfg.last_selected = i
    BY <2>1, ProfileConstants DEF AppConfig
  <2>3. /\ i \in DOMAIN config[w].profiles /\ config' = [config EXCEPT ![w] = cfg]
        /\ shown' = [shown EXCEPT ![w] = i] /\ save_config(config'[w])
        /\ dialog' = [dialog EXCEPT ![w] = Closed] /\ open' = open
    BY <1>2 DEF Select, Free, Typed, ProfilesTypeOK
  <2> HIDE DEF cfg
  <2>4. Selected(cfg) = i /\ config'[w] = cfg
    BY <2>2, <2>3 DEF Selected, Typed, ProfilesTypeOK
  <2>5. Commit(w, cfg)
    BY <2>3, <2>4 DEF Commit
  <2>6. QED
    BY <2>2, <2>3, <2>5, CommitAsInFile
<1>3. ASSUME NEW w \in Windows, DeleteProfile(w)
      PROVE  AsInFile'
  BY <1>3, DeleteCommits, LeftIsTyped, CommitAsInFile
<1>4. ASSUME NEW w \in Windows, NEW name \in Names, NEW password \in Passwords,
             SaveAdd(w, name, password)
      PROVE  AsInFile'
  <2>1. dialog[w].kind = "add" /\ Commit(w, Added(w, name, password)) /\ open' = open
    BY <1>4, SaveAddCommits
  <2>2. Added(w, name, password) \in AppConfig
    BY <2>1, AddedTyped
  <2>3. QED
    BY <2>1, <2>2, CommitAsInFile
<1>5. ASSUME NEW w \in Windows, NEW name \in Names, NEW typed \in Passwords \cup {NoEntry},
             SaveEdit(w, name, typed)
      PROVE  AsInFile'
  <2> DEFINE profile == Edited(w, name, typed)
  <2>1. dialog[w].kind = "edit" /\ Commit(w, Changed(w, profile)) /\ open' = open
    BY <1>5, SaveEditCommits
  <2>2. profile \in ProfileConfig
    BY <2>1, EditedTyped
  <2> HIDE DEF profile
  <2>3. Changed(w, profile) \in AppConfig
    BY <2>1, <2>2, ChangedTyped
  <2>4. QED
    BY <2>1, <2>3, CommitAsInFile
<1>6. ASSUME NEW w \in Windows, CloseWindow(w)
      PROVE  AsInFile'
  BY <1>6 DEF CloseWindow, AsInFile, Typed, ProfilesTypeOK
<1>7. ASSUME NEW w \in Windows, OpenAdd(w) \/ OpenEdit(w) \/ Cancel(w)
      PROVE  AsInFile'
  BY <1>7 DEF OpenAdd, OpenEdit, Cancel, AsInFile, Same, Selected
<1>8. CASE UNCHANGED profilesVars
  BY <1>8 DEF profilesVars, AsInFile, Same, Selected
<1>9. QED
  BY <1>1, <1>2, <1>3, <1>4, <1>5, <1>6, <1>7, <1>8 DEF ProfilesNext, Editing

\* With one window the next start shows the profile that the window shows, whatever
\* the keyring refuses.
THEOREM SelectionSurvives ==
    ASSUME \A v, w \in Windows : v = w
    PROVE  ProfilesSpec => []StartsAsLeft
<1>1. ProfilesInit => AsInFile
  BY DEF ProfilesInit, AsInFile
<1>2. Typed /\ AsInFile => StartsAsLeft
  BY SameIsEnough DEF AsInFile, StartsAsLeft, Typed, ProfilesTypeOK
<1>3. QED
  BY <1>1, <1>2, InitTyped, InductiveTyped, InductiveAsInFile, PTL DEF ProfilesSpec
=============================================================================
