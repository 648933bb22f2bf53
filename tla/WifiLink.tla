------------------------------ MODULE WifiLink ------------------------------
(***************************************************************************)
(* The WiFi link of one node (src/main.cpp): startWiFi at boot, the routes *)
(* that change the network settings, the flags by which the web task hands *)
(* reconnect, forget and reboot to the loop task, and the network scan.    *)
(*                                                                         *)
(* The web task answers only a client that reaches the node, through its   *)
(* access point or through the network that it has joined.  Links fail and *)
(* come back, the network may be out of reach, power may fail.             *)
(* The flash is read and written in one step here (Settings has the        *)
(* flash); what WiFi.mode, begin, disconnect and the scan do is external.  *)
(***************************************************************************)
EXTENDS Naturals

CONSTANTS
  Networks,     \* networks that /wifi/set may name
  NoNetwork,    \* the empty SSID, which it may be given too
  MaxRequests   \* bound: requests that change a setting

ASSUME WifiAssumption == NoNetwork \notin Networks /\ MaxRequests \in Nat

NetMode == {"AP_STA", "STA_ONLY", "AP_ONLY"}
Flag == {"reboot", "reconnect", "forget"}
Config == [netMode : NetMode, ssid : Networks \cup {NoNetwork}, webEnabled : BOOLEAN]

VARIABLES
  booted,
  cfg, saved,     \* netMode, staSSID and webEnabled, in RAM and in flash
  wifiMode,       \* WiFi.getMode()
  joining, link,  \* the network that the library was told to join, and has joined
  flags,          \* the pending flags that are set
  web,            \* the flag that the route in progress will set, or "idle"
  loop,           \* the loop task: at the "top", about to "disconnect", past it, to "begin"
  scan,           \* WiFi.scanComplete(): "none" (or failed), "running", "done"
  wifiScanActive,
  asked,          \* a console polls /wifi/scan
  requests,       \* number of changed settings
  joinedAtBoot,   \* history: was the network joined within the 10 s of startWiFi?
  lastJoin        \* history: the last WiFi.begin was given an "empty" SSID, "crossed" a
                  \* forget that was pending, or neither ("plain")

vars == <<booted, cfg, saved, wifiMode, joining, link, flags, web, loop, scan,
          wifiScanActive, asked, requests, joinedAtBoot, lastJoin>>

TypeOK ==
  /\ booted \in BOOLEAN
  /\ cfg \in Config
  /\ saved.ssid \in Networks \cup {NoNetwork} /\ saved.webEnabled \in BOOLEAN
  /\ wifiMode \in {"OFF", "AP", "STA", "AP_STA"}
  /\ joining \in Networks \cup {NoNetwork} /\ link \in BOOLEAN
  /\ flags \subseteq Flag /\ web \in Flag \cup {"idle"}
  /\ loop \in {"top", "disconnect", "past", "begin"}
  /\ scan \in {"none", "running", "done"} /\ wifiScanActive \in BOOLEAN /\ asked \in BOOLEAN
  /\ requests \in 0 .. MaxRequests /\ joinedAtBoot \in BOOLEAN
  /\ lastJoin \in {"plain", "crossed", "empty"}

Defaults == [netMode |-> "AP_STA", ssid |-> NoNetwork, webEnabled |-> TRUE]

\* the flash may hold a mode that no firmware of today writes
Init ==
  /\ booted = FALSE
  /\ saved \in {[Defaults EXCEPT !.netMode = m] : m \in NetMode \cup {"UNKNOWN"}}
  /\ cfg = Defaults
  /\ wifiMode = "OFF" /\ joining = NoNetwork /\ link = FALSE
  /\ flags = {} /\ web = "idle" /\ loop = "top"
  /\ scan = "none" /\ wifiScanActive = FALSE /\ asked = FALSE
  /\ requests = 0 /\ joinedAtBoot = FALSE /\ lastJoin = "plain"

HasAp == wifiMode \in {"AP", "AP_STA"}
Reached == booted /\ cfg.webEnabled /\ (HasAp \/ link)

-----------------------------------------------------------------------------
(* Boot and restart.                                                        *)

\* mutant: the mode is used as it was found
loadConfigRaw == saved

\* loadConfig: an unknown mode is AP_STA
loadConfig == [saved EXCEPT !.netMode = IF @ \in NetMode THEN @ ELSE "AP_STA"]

\* mutant: without credentials nothing is tried, and nothing opened
startWiFiNoNet(c, joined) ==
  CASE c.netMode = "AP_ONLY" -> "AP"
    [] c.netMode = "STA_ONLY" -> IF joined \/ c.ssid = NoNetwork THEN "STA" ELSE "AP_STA"
    [] OTHER -> "AP_STA"

\* startWiFi: in STA_ONLY the access point is opened unless the network was joined
startWiFi(c, joined) ==
  CASE c.netMode = "AP_ONLY" -> "AP"
    [] c.netMode = "STA_ONLY" -> IF joined THEN "STA" ELSE "AP_STA"
    [] OTHER -> "AP_STA"

\* setup(): the join is waited for 10 s; it may still come later
Boot(joined) ==
  LET c == loadConfig
      tries == c.netMode # "AP_ONLY" /\ c.ssid # NoNetwork
  IN  /\ ~booted
      /\ joined => tries
      /\ booted' = TRUE
      /\ cfg' = c
      /\ joining' = IF tries THEN c.ssid ELSE NoNetwork
      /\ link' = joined /\ joinedAtBoot' = joined
      /\ wifiMode' = startWiFi(c, joined)
      /\ UNCHANGED <<saved, flags, web, loop, scan, wifiScanActive, asked, requests, lastJoin>>

Restart ==
  /\ booted' = FALSE
  /\ wifiMode' = "OFF" /\ joining' = NoNetwork /\ link' = FALSE
  /\ flags' = {} /\ web' = "idle" /\ loop' = "top"
  /\ scan' = "none" /\ wifiScanActive' = FALSE /\ asked' = FALSE /\ joinedAtBoot' = FALSE
  /\ lastJoin' = "plain"
  /\ UNCHANGED <<cfg, saved, requests>>

PowerFails == booted /\ Restart

\* the network comes into reach (the library goes on trying), and out of it
LinkUp ==
  /\ booted /\ ~link /\ joining # NoNetwork
  /\ link' = TRUE
  /\ UNCHANGED <<booted, cfg, saved, wifiMode, joining, flags, web, loop, scan,
                 wifiScanActive, asked, requests, joinedAtBoot, lastJoin>>

LinkLost ==
  /\ link
  /\ link' = FALSE
  /\ UNCHANGED <<booted, cfg, saved, wifiMode, joining, flags, web, loop, scan,
                 wifiScanActive, asked, requests, joinedAtBoot, lastJoin>>

-----------------------------------------------------------------------------
(* The web task.                                                            *)

\* the settings under gLock; then SaveAndFlag
Change(c, flag) ==
  /\ Reached /\ web = "idle" /\ requests < MaxRequests
  /\ requests' = requests + 1
  /\ cfg' = c
  /\ web' = flag
  /\ UNCHANGED <<booted, saved, wifiMode, joining, link, flags, loop, scan,
                 wifiScanActive, asked, joinedAtBoot, lastJoin>>

\* an argument ssid must be there; it may be empty
routeWifiSet(ssid) ==
  Change([cfg EXCEPT !.ssid = ssid, !.netMode = IF @ = "AP_ONLY" THEN "AP_STA" ELSE @],
         "reconnect")
routeWifiForget == Change([cfg EXCEPT !.ssid = NoNetwork], "forget")
routeNetModeSet(m) == Change([cfg EXCEPT !.netMode = m], "reboot")
routeWebSet(en) == Change([cfg EXCEPT !.webEnabled = en], "reboot")

\* saveConfig, then the flag of the route
SaveAndFlag ==
  /\ web # "idle"
  /\ saved' = cfg
  /\ flags' = flags \cup {web}
  /\ web' = "idle"
  /\ UNCHANGED <<booted, cfg, wifiMode, joining, link, loop, scan, wifiScanActive, asked,
                 requests, joinedAtBoot, lastJoin>>

\* a station interface for a scan or a join, with or without access point
ensureStaInterface ==
  IF wifiMode \in {"OFF", "AP"}
  THEN IF cfg.netMode = "STA_ONLY" THEN "STA" ELSE "AP_STA"
  ELSE wifiMode

\* the console opens its scan dialogue
AskForScan ==
  /\ Reached /\ ~asked
  /\ asked' = TRUE
  /\ UNCHANGED <<booted, cfg, saved, wifiMode, joining, link, flags, web, loop, scan,
                 wifiScanActive, requests, joinedAtBoot, lastJoin>>

\* mutant: a scan that failed is not looked at
ScanFailedNever == FALSE

ScanFailed == scan = "none" /\ wifiScanActive

\* wifiScanJSON, polled until it has networks or an error.  scanDelete forgets results; a
\* scan that runs goes on.
wifiScanJSON ==
  /\ Reached /\ web = "idle" /\ asked
  /\ \/ /\ scan = "running"                      \* no answer yet, or 15 s are over
        /\ \/ UNCHANGED <<asked, wifiScanActive>>
           \/ wifiScanActive /\ wifiScanActive' = FALSE /\ asked' = FALSE
        /\ UNCHANGED <<scan, wifiMode>>
     \/ /\ ScanFailed
        /\ wifiScanActive' = FALSE /\ asked' = FALSE
        /\ UNCHANGED <<scan, wifiMode>>
     \/ /\ scan = "none" /\ ~wifiScanActive     \* start one, which may fail
        /\ wifiMode' = ensureStaInterface
        /\ \/ scan' = "running" /\ wifiScanActive' = TRUE /\ UNCHANGED asked
           \/ asked' = FALSE /\ UNCHANGED <<scan, wifiScanActive>>
     \/ /\ scan = "done"
        /\ scan' = "none" /\ wifiScanActive' = FALSE /\ asked' = FALSE
        /\ UNCHANGED wifiMode
  /\ UNCHANGED <<booted, cfg, saved, joining, link, flags, web, loop, requests, joinedAtBoot, lastJoin>>

\* the driver ends a scan, with results or without
ScanEnds ==
  /\ scan = "running"
  /\ scan' \in {"none", "done"}
  /\ UNCHANGED <<booted, cfg, saved, wifiMode, joining, link, flags, web, loop,
                 wifiScanActive, asked, requests, joinedAtBoot, lastJoin>>

-----------------------------------------------------------------------------
(* The loop task.                                                           *)

Rest == <<booted, cfg, saved, web, asked, requests, joinedAtBoot>>

LoopReboot == booted /\ loop = "top" /\ "reboot" \in flags /\ Restart

\* mutant: one flag for both
AfterForgetBoth == flags \ {"forget", "reconnect"}

AfterForget == flags \ {"forget"}

LoopForget ==
  /\ booted /\ loop = "top" /\ "reboot" \notin flags
  /\ IF "forget" \in flags
     THEN flags' = AfterForget /\ loop' = "disconnect"
     ELSE loop' = "past" /\ UNCHANGED flags
  /\ UNCHANGED <<Rest, lastJoin, wifiMode, joining, link, scan, wifiScanActive>>

LoopDisconnect ==
  /\ loop = "disconnect"
  /\ joining' = NoNetwork /\ link' = FALSE
  /\ loop' = "past"
  /\ UNCHANGED <<Rest, lastJoin, wifiMode, flags, scan, wifiScanActive>>

LoopReconnect ==
  /\ loop = "past"
  /\ IF "reconnect" \in flags
     THEN flags' = flags \ {"reconnect"} /\ loop' = "begin"
     ELSE loop' = "top" /\ UNCHANGED flags
  /\ UNCHANGED <<Rest, lastJoin, wifiMode, joining, link, scan, wifiScanActive>>

\* scanDelete, ensureStaInterface, WiFi.begin with the present settings.  The library
\* refuses an empty SSID and keeps the link that it has.
LoopBegin ==
  /\ loop = "begin"
  /\ scan' = IF scan = "done" THEN "none" ELSE scan
  /\ wifiScanActive' = FALSE
  /\ wifiMode' = ensureStaInterface
  /\ IF cfg.ssid = NoNetwork
     THEN UNCHANGED <<joining, link>> /\ lastJoin' = "empty"
     ELSE /\ joining' = cfg.ssid /\ link' = FALSE
          /\ lastJoin' = IF "forget" \in flags THEN "crossed" ELSE "plain"
  /\ loop' = "top"
  /\ UNCHANGED <<Rest, flags>>

LoopStep == LoopReboot \/ LoopForget \/ LoopDisconnect \/ LoopReconnect \/ LoopBegin

Next ==
  \/ \E joined \in BOOLEAN : Boot(joined)
  \/ PowerFails
  \/ LinkUp
  \/ LinkLost
  \/ \E ssid \in Networks \cup {NoNetwork} : routeWifiSet(ssid)
  \/ routeWifiForget
  \/ \E m \in NetMode : routeNetModeSet(m)
  \/ \E en \in BOOLEAN : routeWebSet(en)
  \/ SaveAndFlag
  \/ AskForScan
  \/ wifiScanJSON
  \/ ScanEnds
  \/ LoopStep

\* Tasks run, the console goes on polling, the driver ends its scans.
Fairness ==
  /\ WF_vars(Boot(TRUE) \/ Boot(FALSE))
  /\ WF_vars(SaveAndFlag) /\ WF_vars(LoopStep)
  /\ SF_vars(wifiScanJSON) /\ WF_vars(ScanEnds)

Spec == Init /\ [][Next]_vars /\ Fairness

-----------------------------------------------------------------------------
(* Properties.                                                              *)

\* A node without access point has joined its network when it booted, or is about to
\* restart: no order of /wifi/set, /wifi/forget, /netmode/set, scans and restarts closes
\* it otherwise.  (README.md promises "AP always recoverable"; a node in STA_ONLY that
\* loses or forgets its network after it booted has neither, until it is restarted:
\* startWiFi, ensureStaInterface.)
Recoverable ==
  booted => HasAp \/ joinedAtBoot \/ "reboot" \in flags \cup {web}

\* The link as setup(), the routes and the loop leave it: in its type, and reachable.
WifiInv == TypeOK /\ Recoverable

\* When no route and no flag is under way, the library joins the network of the
\* settings, whatever the order of /wifi/set and /wifi/forget and of the loop that
\* serves them, with two exceptions.  A forget and a set that both fall between the two
\* tests of loop() are served in the wrong order, and leave the node joined to nothing.
\* And /wifi/set with an empty SSID clears the settings as a forget does, but WiFi.begin
\* refuses it: the node stays on the network it had until it is restarted (loop(),
\* routeWifiSet, routeWifiForget).
LibraryFollows ==
  (booted /\ web = "idle" /\ flags = {} /\ loop = "top" /\ cfg.netMode # "AP_ONLY") =>
    \/ joining = cfg.ssid
    \/ lastJoin = "crossed" /\ joining = NoNetwork
    \/ lastJoin = "empty" /\ cfg.ssid = NoNetwork

\* A console that polls is given networks or an error, although a reconnect of the loop
\* task resets the scan under it, while the node stays up and within its reach
\* (wifiScanJSON).
ScanAnswered == <>[]Reached => []<>~asked
=============================================================================
