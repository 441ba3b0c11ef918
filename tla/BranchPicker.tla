------------------------------ MODULE BranchPicker ------------------------------
(* Step 1 of the onboarding page: a customer, a city, perhaps a suburb, and the   *)
(* branch that is listed for them or created there                                *)
(* (app/templates/onboarding.html, with the endpoints it calls).                  *)
(*                                                                                *)
(* A handler of the page runs to its next await; questions to the server are in   *)
(* flight meanwhile, their answers come in any order, and every control of the    *)
(* page stays usable.  The server's part of a question is one step with its       *)
(* answer; a question that is lost may have been served.  Creating a customer, a  *)
(* city or a suburb ends in the change event of the list it is put into, so it is *)
(* that event here.  Branches of one place are not told apart.                    *)
EXTENDS Naturals, FiniteSets

CONSTANTS
  None,
  Customers, Cities, Suburbs,
  CityOf,           \* the city of each suburb
  Slots             \* bounds the questions in flight

(* A branch is its place.  The server refuses a suburb of another city.           *)
AnyPlace == [customer : Customers, city : Cities, suburb : Suburbs \cup {None}]
Places   == {p \in AnyPlace : p.suburb # None => CityOf[p.suburb] = p.city}

Questions ==
       [kind : {"suburbs"}, city : Cities]
  \cup [kind : {"branches"}, customer : Customers, city : Cities,
        suburb : Suburbs \cup {None}, created : Places \cup {None}]
  \cup [kind : {"create"}, place : AnyPlace]

ASSUME PickerAssumption ==
  /\ CityOf \in [Suburbs -> Cities]
  /\ None \notin Customers \cup Cities \cup Suburbs \cup AnyPlace \cup Questions

VARIABLES
  step,             \* the step the page shows
  customer, city, suburb, branch,       \* the page's state object
  suburbList, suburbShown,              \* the suburb list and what is selected in it
  branchList, branchShown,              \* the same for branches
  question,         \* question[s]: a question in flight, or None
  branches,         \* the branches the server has
  hasty             \* history: the page was used before it had its answers

choice == <<customer, city, suburb, branch>>
lists  == <<suburbList, suburbShown, branchList, branchShown>>
picker == <<step, choice, lists, question, branches, hasty>>

Busy == \E s \in Slots : question[s] # None
Free == {s \in Slots : question[s] = None}

SuburbsOf(z) == {u \in Suburbs : CityOf[u] = z}

(* list_branches: a suburb narrows the list down, none leaves it to the city.     *)
Matching(c, z, u) ==
  {p \in branches : p.customer = c /\ p.city = z /\ (u # None => p.suburb = u)}

PickerInit ==
  /\ step = 1
  /\ customer = None /\ city = None /\ suburb = None /\ branch = None
  /\ suburbList = {} /\ suburbShown = None
  /\ branchList = {} /\ branchShown = None
  /\ question = [s \in Slots |-> None]
  /\ branches \in SUBSET Places
  /\ hasty = FALSE

--------------------------------------------------------------------------------
(* refreshBranches: asks for the branches of a customer and a city, or empties    *)
(* the list at once where one of them is missing.                                 *)
RefreshBranches(s, c, z, u, created) ==
  IF c = None \/ z = None
    THEN /\ question' = [question EXCEPT ![s] = None]
         /\ branchList' = {}
         /\ branchShown' = None
    ELSE /\ question' =
              [question EXCEPT ![s] = [kind |-> "branches", customer |-> c, city |-> z,
                                       suburb |-> u, created |-> created]]
         /\ UNCHANGED <<branchList, branchShown>>

SelectCustomer(c) ==
  /\ step = 1
  /\ c # customer
  /\ customer' = c
  /\ branch' = None
  /\ \E s \in Free : RefreshBranches(s, c, city, suburb, None)
  /\ hasty' = (hasty \/ Busy)
  /\ UNCHANGED <<step, city, suburb, suburbList, suburbShown, branches>>

(* What the change of the city sets at once.  The mutant keeps the branch.       *)
ChooseCity_KeepsBranch(z) == city' = z /\ suburb' = None /\ branch' = branch
ChooseCity(z) == city' = z /\ suburb' = None /\ branch' = None

(* The branches are asked for once the suburbs have been answered.                *)
SelectCity(z) ==
  /\ step = 1
  /\ z # city
  /\ ChooseCity(z)
  /\ \E s \in Free :
       IF z = None
         THEN /\ suburbList' = {}
              /\ suburbShown' = None
              /\ RefreshBranches(s, customer, z, None, None)
         ELSE /\ question' = [question EXCEPT ![s] = [kind |-> "suburbs", city |-> z]]
              /\ UNCHANGED lists
  /\ hasty' = Busy
  /\ UNCHANGED <<step, customer, branches>>

(* The branch chosen stays chosen.                                                *)
SelectSuburb(u) ==
  /\ step = 1
  /\ u # suburbShown
  /\ suburb' = u
  /\ suburbShown' = u
  /\ \E s \in Free : RefreshBranches(s, customer, city, u, None)
  /\ hasty' = (hasty \/ Busy)
  /\ UNCHANGED <<step, customer, city, branch, suburbList, branches>>

SelectBranch(b) ==
  /\ step = 1
  /\ b # branchShown
  /\ branch' = b
  /\ branchShown' = b
  /\ hasty' = (hasty \/ Busy)
  /\ UNCHANGED <<step, customer, city, suburb, suburbList, suburbShown, branchList,
                 question, branches>>

NewBranch ==
  /\ step = 1
  /\ customer # None
  /\ city # None
  /\ \E s \in Free :
       question' =
         [question EXCEPT ![s] =
            [kind |-> "create",
             place |-> [customer |-> customer, city |-> city, suburb |-> suburb]]]
  /\ hasty' = (hasty \/ Busy)
  /\ UNCHANGED <<step, choice, lists, branches>>

--------------------------------------------------------------------------------
(* refreshSuburbs has its answer, whatever the city is by now; the branches asked *)
(* for are those of the customer and city chosen by now.  The mutant forgets them.*)
AnswerSuburbs_Ends(s) ==
  /\ question[s] # None
  /\ question[s].kind = "suburbs"
  /\ suburbList' = SuburbsOf(question[s].city)
  /\ suburbShown' = None
  /\ question' = [question EXCEPT ![s] = None]
  /\ UNCHANGED <<step, choice, branchList, branchShown, branches, hasty>>

AnswerSuburbs(s) ==
  /\ question[s] # None
  /\ question[s].kind = "suburbs"
  /\ suburbList' = SuburbsOf(question[s].city)
  /\ suburbShown' = None
  /\ RefreshBranches(s, customer, city, None, None)
  /\ UNCHANGED <<step, choice, branches, hasty>>

(* The list is replaced.  It shows none of its branches, or the one just created, *)
(* which is then the one chosen.                                                  *)
AnswerBranches(s) ==
  /\ question[s] # None
  /\ question[s].kind = "branches"
  /\ LET q     == question[s]
         found == Matching(q.customer, q.city, q.suburb)
     IN  /\ branchList' = found
         /\ branchShown' = IF q.created \in found THEN q.created ELSE None
         /\ branch' = IF q.created # None THEN q.created ELSE branch
  /\ question' = [question EXCEPT ![s] = None]
  /\ UNCHANGED <<step, customer, city, suburb, suburbList, suburbShown, branches, hasty>>

(* create_branch has committed: the list is refreshed for what is chosen by now.  *)
AnswerCreate(s) ==
  /\ question[s] # None
  /\ question[s].kind = "create"
  /\ question[s].place \in Places
  /\ branches' = branches \cup {question[s].place}
  /\ RefreshBranches(s, customer, city, suburb, question[s].place)
  /\ branch' = IF customer = None \/ city = None THEN question[s].place ELSE branch
  /\ UNCHANGED <<step, customer, city, suburb, suburbList, suburbShown, hasty>>

(* No answer, or a refusal: the handler ends where it waits.                      *)
Lost(s) ==
  /\ question[s] # None
  /\ \/ UNCHANGED branches
     \/ /\ question[s].kind = "create"
        /\ question[s].place \in Places
        /\ branches' = branches \cup {question[s].place}
  /\ question' = [question EXCEPT ![s] = None]
  /\ hasty' = TRUE
  /\ UNCHANGED <<step, choice, lists>>

Step1Next ==
  /\ step = 1
  /\ branch # None
  /\ step' = 2
  /\ UNCHANGED <<choice, lists, question, branches, hasty>>

Step2Back ==
  /\ step = 2
  /\ step' = 1
  /\ UNCHANGED <<choice, lists, question, branches, hasty>>

PickerNext ==
  \/ \E c \in Customers \cup {None} : SelectCustomer(c)
  \/ \E z \in Cities \cup {None} : SelectCity(z)
  \/ \E u \in suburbList \cup {None} : SelectSuburb(u)
  \/ \E b \in branchList \cup {None} : SelectBranch(b)
  \/ NewBranch
  \/ Step1Next
  \/ Step2Back
  \/ \E s \in Slots :
       AnswerSuburbs(s) \/ AnswerBranches(s) \/ AnswerCreate(s) \/ Lost(s)

--------------------------------------------------------------------------------
(* Every variable of step 1 holds what the page or the server can hold.           *)
PickerTypeOK ==
  /\ step \in 1..5
  /\ customer \in Customers \cup {None}
  /\ city \in Cities \cup {None}
  /\ suburb \in Suburbs \cup {None}
  /\ branch \in Places \cup {None}
  /\ suburbList \subseteq Suburbs
  /\ suburbShown \in suburbList \cup {None}
  /\ branchList \subseteq Places
  /\ branchShown \in branchList \cup {None}
  /\ question \in [Slots -> Questions \cup {None}]
  /\ branches \subseteq Places
  /\ hasty \in BOOLEAN

(* sel-customer, sel-city, btn-new-branch: a branch is chosen under the customer  *)
(* and in the city that are chosen, for a user who lets the page answer; one who  *)
(* does not has this again from the next change of the city on.                   *)
BranchIsOfTheChoice ==
  ~hasty /\ branch # None => branch.customer = customer /\ branch.city = city

(* refreshSuburbs, refreshBranches: with every answer in, the lists are those of  *)
(* the choice, and what they show as selected is what the page will send.         *)
PageShowsTheChoice ==
  ~hasty /\ ~Busy =>
    /\ suburbList = SuburbsOf(city)
    /\ suburbShown = suburb
    /\ branchList = Matching(customer, city, suburb)
    /\ branchShown # None => branch = branchShown

(* onboarding.html:333, "Select or create a branch before continuing": the branch *)
(* that step 1 is left with is selected on the page, for a user who lets the page *)
(* answer.                                                                        *)
StartsFromAShownBranch ==
  [][~hasty /\ step = 1 /\ step' = 2 => branchShown = branch]_picker
================================================================================
