-------------------------- MODULE MCHeuristicBrain --------------------------
(***************************************************************************)
(* Tickets for HeuristicBrain: one per way through propose().              *)
(***************************************************************************)
EXTENDS HeuristicBrain

\* A described machine, worked with a technician at the console.
Described == [asked |-> {}, matches |-> {"print-spooler"}, local |-> FALSE,
              session |-> "simulated", platform |-> "windows", category |-> "other",
              tools |-> {}, dated |-> TRUE, canAsk |-> FALSE, canCapture |-> TRUE,
              canControl |-> FALSE, gate |-> "browser"]

\* Every playbook on every platform; the wire adds its own mishaps.
PlaybookTickets ==
    {[Described EXCEPT !.matches = m, !.platform = p, !.session = s] :
       m \in {{PLAYBOOKS[i].id} : i \in DOMAIN PLAYBOOKS}, p \in Platform,
       s \in {"simulated", "bridge"}}
      \cup {[Described EXCEPT !.matches = {"vpn-drop", "dns-resolution"}]}

\* The mouse, with and without the governed provider.
DesktopTickets ==
    {[Described EXCEPT !.matches = {"wifi-disabled"}, !.session = "bridge",
                       !.canControl = c, !.gate = g] :
       c \in BOOLEAN, g \in {"browser", "auto-deny"}}

\* Words nothing recognises, requests among them.
VagueTickets ==
    {[Described EXCEPT !.matches = {}, !.platform = p, !.canAsk = c, !.dated = d,
                       !.asked = a] :
       p \in {"windows", "unknown"}, c \in BOOLEAN, d \in BOOLEAN,
       a \in {{}, {"password-reset"}}}

\* Requests before a fault that has a fix.
AskingTickets ==
    {[Described EXCEPT !.asked = a] :
       a \in {{"quarantine-release"}, {"quarantine-release", "corporate-card"},
              {"password-reset", "purge-home", "disable-firewall", "mail-forward"}}}

\* Real machines: what is there depends on the session and the platform.
RealMachine(session, platform, category) ==
    [Described EXCEPT !.local = TRUE, !.session = session, !.platform = platform,
                      !.category = category, !.matches = {},
                      !.tools = Probed(session, platform)]
LocalTickets ==
    {RealMachine(s, p, c) : s \in {"local", "remote"}, p \in {"windows", "macos", "linux"},
                            c \in {"email", "printing", "software"}}
      \cup {[RealMachine("local", "linux", "other") EXCEPT !.tools = t] : t \in {{}, {"uname"}}}
      \cup {RealMachine("local", "unknown", "other")}
      \cup {[RealMachine("local", "macos", "other") EXCEPT !.asked = {"purge-home"}]}

TechnicianTickets ==
    PlaybookTickets \cup DesktopTickets \cup VagueTickets \cup AskingTickets \cup LocalTickets
=============================================================================
