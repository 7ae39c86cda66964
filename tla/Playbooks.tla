----------------------------- MODULE Playbooks -----------------------------
(***************************************************************************)
(* What the offline brain knows: the playbooks of src/src/agent/playbooks  *)
(* .ts for described machines and the checks of local-playbooks.ts for     *)
(* real ones.  Text is abstracted away: a ticket carries the playbooks its *)
(* words match, and a check says whether its output can show a fault at    *)
(* all ("tells").  Commands keep their names, because two steps are the    *)
(* same step when their command is.  A selection from a table is the set   *)
(* of its positions, whose order is the table's.                           *)
(***************************************************************************)
EXTENDS Sequences, FiniteSetsExt

Platform == {"windows", "macos", "linux", "unknown"}

\* A value per platform; nothing is known of an unknown one.
On(windows, macos, linux, unknown) ==
    [windows |-> windows, macos |-> macos, linux |-> linux, unknown |-> unknown]
Everywhere(value, unknown) == On(value, value, value, unknown)

-----------------------------------------------------------------------------
(***************************************************************************)
(* PLAYBOOKS.  "tells" stands for a fault signal or a fault predicate.     *)
(***************************************************************************)
Looks(command) == [command |-> command, tells |-> FALSE]
Tells(command) == [command |-> command, tells |-> TRUE]
Fix(command, rule) == [command |-> command, kind |-> "command", rule |-> rule]
NoFixes == Everywhere(<<>>, <<>>)

\* A weak link is nothing a command on the device could mend.
VpnDrop ==
    [id |-> "vpn-drop", category |-> "connectivity",
     diagnostics |->
        On(<<Looks("ipconfig"), Tells("netsh wlan"), Looks("tasklist")>>,
           <<Looks("ifconfig"), Tells("system_profiler airport")>>,
           <<Looks("ip addr"), Tells("cat wireless")>>, <<>>),
     fixes |-> NoFixes]

PhishingReport ==
    [id |-> "phishing-report", category |-> "security",
     diagnostics |->
        On(<<Tells("list downloads"), Looks("Get-MpComputerStatus")>>,
           <<Tells("list downloads")>>, <<Tells("list downloads")>>, <<>>),
     fixes |-> NoFixes]

\* The one fix that is done with the mouse.
WifiDisabled ==
    [id |-> "wifi-disabled", category |-> "connectivity",
     diagnostics |-> On(<<Tells("netsh interface")>>, <<>>, <<>>, <<>>),
     fixes |-> On(<<[command |-> "turn wi-fi on", kind |-> "ui_action",
                     rule |-> "none"]>>, <<>>, <<>>, <<>>)]

DnsResolution ==
    [id |-> "dns-resolution", category |-> "connectivity",
     diagnostics |->
        On(<<Looks("ipconfig"), Looks("ping"), Tells("nslookup")>>,
           <<Looks("ifconfig"), Looks("ping"), Tells("dig")>>,
           <<Looks("ip addr"), Looks("ping"), Tells("dig")>>, <<>>),
     fixes |-> Everywhere(<<Fix("flush dns", "approve.registry-and-config-write")>>, <<>>)]

PrintSpooler ==
    [id |-> "print-spooler", category |-> "printing",
     diagnostics |-> On(<<Tells("sc query"), Looks("wmic printer")>>,
                        <<Tells("lpstat")>>, <<Tells("lpstat")>>, <<>>),
     fixes |-> On(<<Fix("net stop", "approve.service-restart"),
                    Fix("net start", "approve.service-restart")>>,
                  <<Fix("cupsenable", "approve.service-restart")>>,
                  <<Fix("restart cups", "approve.service-restart")>>, <<>>)]

DiskSpace ==
    [id |-> "disk-space", category |-> "storage",
     diagnostics |-> On(<<Tells("wmic logicaldisk")>>,
                        <<Tells("df"), Looks("du")>>,
                        <<Tells("df"), Looks("du")>>, <<>>),
     fixes |-> NoFixes]

\* Nothing it looks at can show it a fault.
Performance ==
    [id |-> "performance", category |-> "performance",
     diagnostics |-> On(<<Looks("tasklist"), Looks("systeminfo")>>,
                        <<Looks("ps"), Looks("vm_stat")>>,
                        <<Looks("ps"), Looks("free")>>, <<>>),
     fixes |-> NoFixes]

\* The order matters: the first pattern that matches claims the ticket.
PLAYBOOKS == <<VpnDrop, PhishingReport, WifiDisabled, DnsResolution,
               PrintSpooler, DiskSpace, Performance>>

NoPlaybook == [id |-> "none", category |-> "other",
               diagnostics |-> NoFixes, fixes |-> NoFixes]

FindPlaybook(matches) ==
    LET claimed == {i \in DOMAIN PLAYBOOKS : PLAYBOOKS[i].id \in matches}
    IN  IF claimed = {} THEN NoPlaybook ELSE PLAYBOOKS[Min(claimed)]

\* Playbooks whose fault shows on the screen.
VisualCategories == {"printing", "connectivity", "storage"}

(***************************************************************************)
(* What users ask for outright.  A hard stop refuses all of it but one:    *)
(* releasing a message from quarantine is merely off the read-only list.   *)
(***************************************************************************)
REQUESTED_ACTIONS ==
    <<"password-reset", "purge-home", "disable-firewall", "create-account",
      "group-membership", "mailbox-access", "mail-forward",
      "quarantine-release", "corporate-card">>

FindRequestedActions(asked) ==
    {i \in DOMAIN REQUESTED_ACTIONS : REQUESTED_ACTIONS[i] \in asked}

HardStop(action) == action # "quarantine-release"

-----------------------------------------------------------------------------
(***************************************************************************)
(* LOCAL_CHECKS: whom a check concerns, the tool it needs, the readings    *)
(* interpret() takes for a fault, and the tool its fix needs, if it has    *)
(* one.  A reading is "clean", "fault" (the output shows it), "error" (the *)
(* exit code is not zero) or "cut" (killed by its timeout, output lost).   *)
(***************************************************************************)
Mendable(id, relevantTo, requires, finds, fix) ==
    [id |-> id, relevantTo |-> relevantTo, requires |-> requires,
     finds |-> finds, fix |-> fix]
Check(id, relevantTo, requires, finds) ==
    Mendable(id, relevantTo, requires, finds, Everywhere("none", "none"))

CheckIdentity == Check("identity", {"*"}, On("systeminfo", "uname", "uname", "none"), {})
CheckUptime == Check("uptime", {"*"}, On("powershell", "uptime", "uptime", "none"), {"fault"})
CheckDisk == Check("disk", {"*"}, On("wmic", "df", "df", "none"), {"fault"})
CheckMemory == Check("memory", {"performance", "software", "other"},
                     On("systeminfo", "vm_stat", "free", "none"), {"fault"})
\* No answer at all is a failed lookup.
CheckDns ==
    Mendable("dns", {"connectivity", "email", "software", "other"},
             On("nslookup", "dscacheutil", "getent", "none"), {"fault", "error", "cut"},
             On("ipconfig", "dscacheutil", "resolvectl", "none"))
CheckNetwork == Check("network", {"connectivity", "email"},
                      On("ipconfig", "ifconfig", "ip", "none"), {"fault", "error", "cut"})
CheckReachability == Check("reachability", {"connectivity", "email"},
                           Everywhere("curl", "none"), {"fault", "error", "cut"})
CheckPrinters ==
    Mendable("printers", {"printing"}, On("wmic", "lpstat", "lpstat", "none"), {"fault"},
             On("none", "cupsenable", "cupsenable", "none"))
CheckPower == Check("power", {"hardware", "performance"},
                    On("wmic", "pmset", "cat", "none"), {"fault"})
CheckWifi == Check("wifi", {"connectivity"},
                   On("netsh", "system_profiler", "cat", "none"), {"fault"})
\* A tunnel up or down is context, not a fault.
CheckVpn == Check("vpn", {"connectivity"}, On("ipconfig", "ifconfig", "ip", "none"), {})
CheckTime == Check("time", {"authentication", "security", "email"},
                   On("w32tm", "sntp", "timedatectl", "none"), {"fault"})
CheckBatteryHealth == Check("battery-health", {"hardware"},
                            On("wmic", "system_profiler", "cat", "none"), {"fault"})
CheckUpdates == Check("updates", {"security", "software"},
                      On("wmic", "softwareupdate", "cat", "none"), {"fault"})
CheckDiskHealth == Check("disk-health", {"hardware", "storage"},
                         On("wmic", "diskutil", "lsblk", "none"), {"fault"})
CheckTopProcesses == Check("top-processes", {"performance", "software", "other"},
                           On("tasklist", "ps", "ps", "none"), {"fault"})

LOCAL_CHECKS ==
    <<CheckIdentity, CheckUptime, CheckDisk, CheckMemory, CheckDns, CheckNetwork,
      CheckReachability, CheckPrinters, CheckPower, CheckWifi, CheckVpn, CheckTime,
      CheckBatteryHealth, CheckUpdates, CheckDiskHealth, CheckTopProcesses>>

\* On Windows two checks read the same report.
CommandOf(id, platform) ==
    IF platform = "windows" /\ id = "memory" THEN "identity" ELSE id

\* The tools each kind of session looks for; what it does not look for, it lacks.
Probed(session, platform) ==
    CASE session = "local" ->
            {"df", "free", "ps", "uptime", "uname", "cat", "curl", "getent", "nslookup",
             "ip", "ifconfig", "resolvectl", "lsblk", "timedatectl", "lpstat",
             "system_profiler", "diskutil", "pmset", "vm_stat", "dscacheutil",
             "ipconfig", "systeminfo", "tasklist", "wmic", "powershell"}
      [] session = "remote" /\ platform = "windows" ->
            {"ipconfig", "systeminfo", "tasklist", "wmic", "powershell", "nslookup"}
      [] session = "remote" /\ platform # "windows" ->
            {"df", "free", "ps", "uptime", "uname", "getent", "nslookup", "ip",
             "ifconfig", "curl", "vm_stat"}
      [] OTHER -> {}

ChecksFor(platform, tools) ==
    {i \in DOMAIN LOCAL_CHECKS : LOCAL_CHECKS[i].requires[platform] \in tools}

HasFix(check, platform, tools) == check.fix[platform] \in tools

\* A category with nothing of its own gets the general sweep.
ChecksForCategory(platform, tools, category) ==
    LET runnable == ChecksFor(platform, tools)
        targeted == {i \in runnable : LOCAL_CHECKS[i].relevantTo \cap {"*", category} # {}}
        specific == {i \in targeted : "*" \notin LOCAL_CHECKS[i].relevantTo}
    IN  IF specific = {} THEN runnable ELSE targeted
=============================================================================
