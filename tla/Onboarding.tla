------------------------------- MODULE Onboarding -------------------------------
(* The onboarding page from a branch to a monitored link: the link's form, the    *)
(* creation of the link, the discovery of its interfaces, the selection of one    *)
(* and the review (app/templates/onboarding.html), with the three endpoints of    *)
(* app/api/wan_links.py it calls.                                                 *)
(*                                                                                *)
(* A request is sent, served and answered in three steps, so the server may serve *)
(* two requests in one order and the page take their answers in the other; either *)
(* leg may fail.  The forms' own fields are abstracted to whether SNMP is chosen. *)
EXTENDS BranchPicker

CONSTANTS
  Indices,          \* the values an ifIndex may take
  MaxLinks          \* link ids are 1..MaxLinks; bounds the creations that are served

LinkIds == 1..MaxLinks
Links   == [branch : Places, snmp : BOOLEAN, stored : SUBSET Indices,
            selected : Indices \cup {None}]

(* A request holds what the page sent and the server's reply, once it is served.  *)
Creations   == [kind : {"create"}, branch : Places, snmp : BOOLEAN, link : LinkIds \cup {None}]
Discoveries == [kind : {"discover"}, link : LinkIds, found : SUBSET Indices, done : BOOLEAN]
Selections  == [kind : {"select"}, link : LinkIds, index : Indices, done : BOOLEAN]

ASSUME OnboardingAssumption ==
  /\ MaxLinks \in Nat
  /\ None \notin LinkIds \cup Indices \cup Links
  /\ None \notin Creations \cup Discoveries \cup Selections

VARIABLES
  snmpEnabled, wanLinkId, selectedIfIndex,  \* the page's state object
  discovered,       \* state.discoveredInterfaces
  listed,           \* the page shows them, and not that it is waiting or has failed
  review,           \* the interface that the text of step 5 names while it is shown
  asked,            \* asked[s]: a request in flight, or None
  links,            \* the wan_links rows with their snmp_interfaces, or None
  repeated,         \* history: a creation was asked for while another was under way,
                    \* or the answer of one that was made was lost
  muddled           \* history: the same of selections

form    == <<snmpEnabled, wanLinkId, selectedIfIndex, discovered, listed>>
server  == <<asked, links>>
history == <<repeated, muddled>>
vars    == <<picker, review, form, server, history>>

FreeSlots == {s \in Slots : asked[s] = None}
InFlight(kind) == \E s \in Slots : asked[s] # None /\ asked[s].kind = kind

Init ==
  /\ PickerInit
  /\ snmpEnabled = FALSE
  /\ wanLinkId = None
  /\ selectedIfIndex = None
  /\ discovered = {}
  /\ listed = FALSE
  /\ review = None
  /\ asked = [s \in Slots |-> None]
  /\ links = [l \in LinkIds |-> None]
  /\ repeated = FALSE
  /\ muddled = FALSE

--------------------------------------------------------------------------------
(* Step 5 is always entered through renderReview, which writes the interface      *)
(* selected by then into its text.                                                *)
Show(n) ==
  /\ step' = n
  /\ review' = IF n = 5 THEN selectedIfIndex ELSE None
  /\ UNCHANGED <<choice, lists, question, branches, hasty>>

Step2Next == step = 2 /\ Show(3) /\ UNCHANGED <<form, server, history>>
Step3Back == step = 3 /\ Show(2) /\ UNCHANGED <<form, server, history>>
Step4Back == step = 4 /\ Show(3) /\ UNCHANGED <<form, server, history>>

(* Where a link leads to once it is there.                                        *)
AfterCreation(snmp) == IF snmp THEN 4 ELSE 5

(* The page keeps the id of the link it created and creates no other.  The mutant *)
(* posts at every Next.                                                           *)
MustCreate_Always == TRUE
MustCreate == wanLinkId = None

(* The page turns to the next step when the creation is answered.  The mutant     *)
(* does so when it is asked for.                                                  *)
WaitForTheLink_Not(snmp) == Show(AfterCreation(snmp))
WaitForTheLink(snmp) == UNCHANGED <<picker, review>>

Step3Next(snmp) ==
  /\ step = 3
  /\ snmpEnabled' = snmp
  /\ IF MustCreate
       THEN /\ \E s \in FreeSlots :
                 asked' = [asked EXCEPT ![s] =
                             [kind |-> "create", branch |-> branch, snmp |-> snmp,
                              link |-> None]]
            /\ repeated' = (repeated \/ InFlight("create"))
            /\ WaitForTheLink(snmp)
       ELSE /\ Show(AfterCreation(snmp))
            /\ UNCHANGED <<asked, repeated>>
  /\ UNCHANGED <<wanLinkId, selectedIfIndex, discovered, listed, links, muddled>>

Discover ==
  /\ step = 4
  /\ \E s \in FreeSlots :
       asked' = [asked EXCEPT ![s] =
                   [kind |-> "discover", link |-> wanLinkId, found |-> {},
                    done |-> FALSE]]
  /\ listed' = FALSE
  /\ UNCHANGED <<picker, review, snmpEnabled, wanLinkId, selectedIfIndex, discovered, links, history>>

(* What a click on Select shows at once: nothing, the page waits for the answer.  *)
(* The mutant shows the selection before it is confirmed.                         *)
Clicked_Optimistic(i) == i
Clicked(i) == selectedIfIndex

SelectInterface(i) ==
  /\ step = 4
  /\ listed
  /\ i \in discovered
  /\ \E s \in FreeSlots :
       asked' = [asked EXCEPT ![s] =
                   [kind |-> "select", link |-> wanLinkId, index |-> i, done |-> FALSE]]
  /\ muddled' = (muddled \/ InFlight("select"))
  /\ selectedIfIndex' = Clicked(i)
  /\ UNCHANGED <<picker, review, snmpEnabled, wanLinkId, discovered, listed, links, repeated>>

(* updateSelectionConfirmation: Next is enabled while the selected interface is   *)
(* among those discovered last.  The mutant never disables it.                    *)
NextEnabled_Always == TRUE
NextEnabled == selectedIfIndex \in discovered

Step4Next == step = 4 /\ NextEnabled /\ Show(5) /\ UNCHANGED <<form, server, history>>

Step5Back ==
  /\ step = 5
  /\ Show(IF snmpEnabled THEN 4 ELSE 3)
  /\ UNCHANGED <<form, server, history>>

--------------------------------------------------------------------------------
(* create_wan_link inserts the row it was sent.                                   *)
ServeCreation(s) ==
  /\ asked[s] # None
  /\ asked[s].kind = "create"
  /\ asked[s].link = None
  /\ \E l \in LinkIds :
       /\ links[l] = None
       /\ links' = [links EXCEPT ![l] = [branch |-> asked[s].branch, snmp |-> asked[s].snmp,
                                         stored |-> {}, selected |-> None]]
       /\ asked' = [asked EXCEPT ![s].link = l]
  /\ UNCHANGED <<picker, review, form, history>>

(* discover_interfaces, of a link that has SNMP, adds what the device returns to  *)
(* the stored interfaces; it refuses any other link (Fails).                      *)
ServeDiscovery(s) ==
  /\ asked[s] # None
  /\ asked[s].kind = "discover"
  /\ ~asked[s].done
  /\ links[asked[s].link].snmp
  /\ \E found \in SUBSET Indices :
       /\ links' = [links EXCEPT ![asked[s].link].stored = @ \cup found]
       /\ asked' = [asked EXCEPT ![s].found = found, ![s].done = TRUE]
  /\ UNCHANGED <<picker, review, form, history>>

(* select_interface, of an interface that is stored; others are refused (Fails).  *)
ServeSelection(s) ==
  /\ asked[s] # None
  /\ asked[s].kind = "select"
  /\ ~asked[s].done
  /\ asked[s].index \in links[asked[s].link].stored
  /\ links' = [links EXCEPT ![asked[s].link].selected = asked[s].index]
  /\ asked' = [asked EXCEPT ![s].done = TRUE]
  /\ UNCHANGED <<picker, review, form, history>>

(* The page takes the link and turns to the step its click asked for, whichever   *)
(* it shows by now.                                                               *)
AnswerCreation(s) ==
  /\ asked[s] # None
  /\ asked[s].kind = "create"
  /\ asked[s].link # None
  /\ wanLinkId' = asked[s].link
  /\ Show(AfterCreation(asked[s].snmp))
  /\ asked' = [asked EXCEPT ![s] = None]
  /\ UNCHANGED <<snmpEnabled, selectedIfIndex, discovered, listed, links, history>>

AnswerDiscovery(s) ==
  /\ asked[s] # None
  /\ asked[s].kind = "discover"
  /\ asked[s].done
  /\ discovered' = asked[s].found
  /\ listed' = TRUE
  /\ asked' = [asked EXCEPT ![s] = None]
  /\ UNCHANGED <<picker, review, snmpEnabled, wanLinkId, selectedIfIndex, links, history>>

AnswerSelection(s) ==
  /\ asked[s] # None
  /\ asked[s].kind = "select"
  /\ asked[s].done
  /\ selectedIfIndex' = asked[s].index
  /\ listed' = TRUE
  /\ asked' = [asked EXCEPT ![s] = None]
  /\ UNCHANGED <<picker, review, snmpEnabled, wanLinkId, discovered, links, history>>

(* A refusal, an error, or an answer that is lost after the server has acted.     *)
Fails(s) ==
  /\ asked[s] # None
  /\ LET q == asked[s] IN
       /\ listed'   = (listed /\ q.kind # "discover")
       /\ repeated' = (repeated \/ (q.kind = "create" /\ q.link # None))
       /\ muddled'  = (muddled \/ (q.kind = "select" /\ q.done))
  /\ asked' = [asked EXCEPT ![s] = None]
  /\ UNCHANGED <<picker, review, snmpEnabled, wanLinkId, selectedIfIndex, discovered, links>>

PageNext ==
  \/ Step2Next
  \/ Step3Back
  \/ \E snmp \in BOOLEAN : Step3Next(snmp)
  \/ Step4Back
  \/ Discover
  \/ \E i \in Indices : SelectInterface(i)
  \/ Step4Next
  \/ Step5Back

RequestNext(s) ==
  \/ ServeCreation(s)
  \/ ServeDiscovery(s)
  \/ ServeSelection(s)
  \/ AnswerCreation(s)
  \/ AnswerDiscovery(s)
  \/ AnswerSelection(s)
  \/ Fails(s)

Next ==
  \/ PickerNext /\ UNCHANGED <<review, form, server, history>>
  \/ PageNext
  \/ \E s \in Slots : RequestNext(s)

Spec == Init /\ [][Next]_vars

--------------------------------------------------------------------------------
(* Every variable holds what the page or the server can hold; in particular no    *)
(* request is sent for a link the page does not have.                             *)
TypeOK ==
  /\ PickerTypeOK
  /\ snmpEnabled \in BOOLEAN
  /\ wanLinkId \in LinkIds \cup {None}
  /\ selectedIfIndex \in Indices \cup {None}
  /\ discovered \subseteq Indices
  /\ listed \in BOOLEAN
  /\ review \in Indices \cup {None}
  /\ asked \in [Slots -> Creations \cup Discoveries \cup Selections \cup {None}]
  /\ links \in [LinkIds -> Links \cup {None}]
  /\ repeated \in BOOLEAN
  /\ muddled \in BOOLEAN

(* step3-next: however the engineer goes back and forth, changes the monitoring   *)
(* or clicks, one visit of the page makes one link.  The exception is a second    *)
(* Next before the first has its answer, or after that answer was lost.           *)
OneLinkPerVisit ==
  ~repeated => \A k, l \in LinkIds : links[k] # None /\ links[l] # None => k = l

(* selectInterface, "never assumed from a click": with no selection in flight the *)
(* page shows the interface that the server polls.  The exceptions are a click     *)
(* while another one's answer is awaited, as answers that overtake one another    *)
(* leave the page with the other interface, and an answer that is lost.           *)
SelectionShownIsStored ==
  ~repeated /\ ~muddled /\ ~InFlight("select") /\ wanLinkId # None =>
    links[wanLinkId].selected = selectedIfIndex

(* renderReview, step5-back: the text that reviews a link with SNMP names an      *)
(* interface, and the link then has SNMP at the server and that interface was     *)
(* once discovered.                                                               *)
ReviewNamesTheInterface ==
  ~repeated /\ step = 5 /\ snmpEnabled =>
    /\ review # None
    /\ links[wanLinkId].snmp
    /\ review \in links[wanLinkId].stored
================================================================================
