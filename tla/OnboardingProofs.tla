--------------------------- MODULE OnboardingProofs ---------------------------
(* Machine-checked proofs of the safety properties of BranchPicker and          *)
(* Onboarding, for every inventory, device and number of requests in flight.    *)
EXTENDS Onboarding, TLAPS

(* A question in flight, of a user who lets the page answer, asks for the choice *)
(* as it is.                                                                    *)
SuburbsAreRight == suburbList = SuburbsOf(city) /\ suburbShown = suburb

Agrees(q) ==
  /\ q.kind = "suburbs" => q.city = city /\ suburb = None
  /\ q.kind = "branches" =>
       /\ q.customer = customer /\ q.city = city /\ q.suburb = suburb
       /\ q.created # None => q.created.customer = customer /\ q.created.city = city
       /\ SuburbsAreRight
  /\ q.kind = "create" =>
       /\ q.place.customer = customer /\ q.place.city = city
       /\ SuburbsAreRight

(* It is then the only one in flight.                                           *)
PatientInv ==
  ~hasty =>
    /\ \A s, t \in Slots : question[s] # None /\ question[t] # None => s = t
    /\ \A s \in Slots : question[s] # None => Agrees(question[s])
    /\ BranchIsOfTheChoice
    /\ PageShowsTheChoice

PickerInv == PickerTypeOK /\ PatientInv

--------------------------------------------------------------------------------
LEMMA Kinds ==
  ASSUME NEW q \in Questions
  PROVE  /\ q # None
         /\ q.kind = "suburbs" \/ q.kind = "branches" \/ q.kind = "create"
         /\ q.kind = "suburbs" => q.city \in Cities
         /\ q.kind = "branches" =>
              /\ q.customer \in Customers /\ q.city \in Cities
              /\ q.suburb \in Suburbs \cup {None} /\ q.created \in Places \cup {None}
         /\ q.kind = "create" => q.place \in AnyPlace
  BY PickerAssumption DEF Questions

LEMMA PlacesAreNot ==
  /\ \A p \in Places : p # None /\ p \in AnyPlace
  /\ None \notin Customers /\ None \notin Cities /\ None \notin Suburbs
  BY PickerAssumption DEF Places

LEMMA MatchingType ==
  ASSUME PickerTypeOK, NEW c, NEW z, NEW u
  PROVE  Matching(c, z, u) \subseteq Places
  BY DEF PickerTypeOK, Matching

LEMMA NoCustomerOrCity ==
  ASSUME PickerTypeOK, NEW c, NEW z, NEW u, c = None \/ z = None
  PROVE  Matching(c, z, u) = {}
  BY PlacesAreNot DEF PickerTypeOK, Matching, AnyPlace

LEMMA NoSuburbs == SuburbsOf(None) = {}
  BY PickerAssumption DEF SuburbsOf

(* refreshBranches keeps the types and asks exactly what it is told to.         *)
LEMMA Refreshed ==
  ASSUME PickerTypeOK, NEW s \in Slots,
         NEW c \in Customers \cup {None}, NEW z \in Cities \cup {None},
         NEW u \in Suburbs \cup {None}, NEW created \in Places \cup {None},
         RefreshBranches(s, c, z, u, created)
  PROVE  /\ question' \in [Slots -> Questions \cup {None}]
         /\ branchList' \subseteq Places /\ branchShown' \in branchList' \cup {None}
         /\ \A t \in Slots \ {s} : question'[t] = question[t]
         /\ c = None \/ z = None =>
              question'[s] = None /\ branchList' = {} /\ branchShown' = None
         /\ c # None /\ z # None =>
              /\ question'[s] # None
              /\ question'[s] = [kind |-> "branches", customer |-> c, city |-> z,
                                 suburb |-> u, created |-> created]
  <1>1. CASE c = None \/ z = None
    BY <1>1 DEF RefreshBranches, PickerTypeOK
  <1>2. CASE c # None /\ z # None
    <2> DEFINE q == [kind |-> "branches", customer |-> c, city |-> z,
                     suburb |-> u, created |-> created]
    <2>1. q \in Questions
      BY <1>2 DEF Questions
    <2>2. question' = [question EXCEPT ![s] = q] /\ UNCHANGED <<branchList, branchShown>>
      BY <1>2 DEF RefreshBranches
    <2>. QED
      BY <1>2, <2>1, <2>2, Kinds DEF PickerTypeOK
  <1>. QED
    BY <1>1, <1>2

LEMMA Asked ==
  ASSUME PickerTypeOK, NEW s \in Slots, NEW q \in Questions,
         question' = [question EXCEPT ![s] = q]
  PROVE  /\ question' \in [Slots -> Questions \cup {None}]
         /\ \A t \in Slots \ {s} : question'[t] = question[t]
         /\ question'[s] = q /\ question'[s] # None
  BY Kinds DEF PickerTypeOK

LEMMA Answered ==
  ASSUME PickerTypeOK, NEW s \in Slots, question' = [question EXCEPT ![s] = None]
  PROVE  /\ question' \in [Slots -> Questions \cup {None}]
         /\ \A t \in Slots \ {s} : question'[t] = question[t]
         /\ question'[s] = None
  BY DEF PickerTypeOK

--------------------------------------------------------------------------------
LEMMA PickerInitially == PickerInit => PickerInv
  <1> SUFFICES ASSUME PickerInit PROVE PickerInv
    OBVIOUS
  <1>1. PickerTypeOK /\ ~(step > 1)
    <2>1. step = 1 /\ step \in 1..5
      BY DEF PickerInit
    <2>2. question \in [Slots -> Questions \cup {None}]
      BY DEF PickerInit
    <2>3. hasty \in BOOLEAN /\ branches \subseteq Places
      BY DEF PickerInit
    <2>4. /\ customer \in Customers \cup {None} /\ city \in Cities \cup {None}
          /\ suburb \in Suburbs \cup {None} /\ branch \in Places \cup {None}
          /\ suburbList \subseteq Suburbs /\ suburbShown \in suburbList \cup {None}
          /\ branchList \subseteq Places /\ branchShown \in branchList \cup {None}
      BY DEF PickerInit
    <2>. QED
      BY <2>1, <2>2, <2>3, <2>4 DEF PickerTypeOK
  <1>2. Matching(None, None, None) = {}
    BY <1>1, NoCustomerOrCity
  <1>. QED
    BY <1>1, <1>2, NoSuburbs
       DEF PickerInit, PickerInv, PatientInv, BranchIsOfTheChoice, PageShowsTheChoice, Busy

(* A change of the choice with nothing in flight leaves one question in flight, *)
(* which agrees with the new choice, or a page that shows it.                   *)
LEMMA CustomerKeeps ==
  ASSUME PickerInv, NEW c \in Customers \cup {None}, SelectCustomer(c)
  PROVE  PickerInv'
  <1>1. PICK s \in Free : RefreshBranches(s, c, city, suburb, None)
    BY DEF SelectCustomer
  <1>2. s \in Slots /\ question[s] = None
    BY <1>1 DEF Free
  <1>3. /\ city \in Cities \cup {None} /\ suburb \in Suburbs \cup {None}
        /\ None \in Places \cup {None}
    BY DEF PickerInv, PickerTypeOK
  <1>4. /\ question' \in [Slots -> Questions \cup {None}]
        /\ branchList' \subseteq Places /\ branchShown' \in branchList' \cup {None}
        /\ \A t \in Slots \ {s} : question'[t] = question[t]
        /\ c = None \/ city = None =>
             question'[s] = None /\ branchList' = {} /\ branchShown' = None
        /\ c # None /\ city # None =>
             /\ question'[s] # None
             /\ question'[s] = [kind |-> "branches", customer |-> c, city |-> city,
                                suburb |-> suburb, created |-> None]
    BY <1>1, <1>2, <1>3, Refreshed DEF PickerInv
  <1>5. PickerTypeOK'
    BY <1>4 DEF SelectCustomer, PickerInv, PickerTypeOK
  <1>7. PatientInv'
    <2> SUFFICES ASSUME ~hasty'
                 PROVE  /\ \A r, t \in Slots : question'[r] # None /\ question'[t] # None => r = t
                        /\ \A t \in Slots : question'[t] # None => Agrees(question[t])'
                        /\ BranchIsOfTheChoice'
                        /\ PageShowsTheChoice'
      BY DEF PatientInv
    <2>1. ~hasty /\ ~Busy
      BY DEF SelectCustomer
    <2>2. SuburbsAreRight /\ SuburbsAreRight'
      BY <2>1 DEF SelectCustomer, PickerInv, PatientInv, PageShowsTheChoice, SuburbsAreRight,
                  SuburbsOf
    <2>3. \A t \in Slots \ {s} : question'[t] = None
      BY <1>4, <2>1 DEF Busy
    <2>4. question'[s] # None => Agrees(question[s])'
      BY <1>4, <2>2 DEF Agrees, SelectCustomer
    <2>5. PageShowsTheChoice'
      <3> SUFFICES ASSUME ~Busy' PROVE PageShowsTheChoice'
        BY DEF PageShowsTheChoice
      <3>1. question'[s] = None
        BY <1>2 DEF Busy
      <3>2. branchList' = {} /\ branchShown' = None /\ (c = None \/ city = None)
        BY <1>4, <3>1
      <3>3. customer' = c /\ city' = city
        BY DEF SelectCustomer
      <3>4. Matching(customer, city, suburb)' = {}
        BY <1>5, <3>2, <3>3, PlacesAreNot DEF PickerTypeOK, Matching, AnyPlace
      <3>. QED
        BY <2>2, <3>2, <3>4 DEF PageShowsTheChoice, SuburbsAreRight
    <2>6. BranchIsOfTheChoice'
      BY DEF SelectCustomer, BranchIsOfTheChoice
    <2>. QED
      BY <1>2, <2>3, <2>4, <2>5, <2>6
  <1>. QED
    BY <1>5, <1>7 DEF PickerInv

LEMMA CityKeeps ==
  ASSUME PickerInv, NEW z \in Cities \cup {None}, SelectCity(z)
  PROVE  PickerInv'
  <1>0. city' = z /\ suburb' = None /\ branch' = None /\ customer' = customer
    BY DEF SelectCity, ChooseCity
  <1>1. PICK s \in Free :
          IF z = None
            THEN /\ suburbList' = {}
                 /\ suburbShown' = None
                 /\ RefreshBranches(s, customer, z, None, None)
            ELSE /\ question' = [question EXCEPT ![s] = [kind |-> "suburbs", city |-> z]]
                 /\ UNCHANGED lists
    BY DEF SelectCity
  <1>2. s \in Slots /\ question[s] = None
    BY <1>1 DEF Free
  <1>3. customer \in Customers \cup {None}
    BY DEF PickerInv, PickerTypeOK
  <1>4. CASE z = None
    <2>1. /\ question' \in [Slots -> Questions \cup {None}]
          /\ branchList' \subseteq Places /\ branchShown' \in branchList' \cup {None}
          /\ \A t \in Slots \ {s} : question'[t] = question[t]
          /\ question'[s] = None /\ branchList' = {} /\ branchShown' = None
      BY <1>1, <1>2, <1>3, <1>4, Refreshed DEF PickerInv
    <2>2. suburbList' = {} /\ suburbShown' = None
      BY <1>1, <1>4
    <2>3. PickerTypeOK'
      BY <1>0, <2>1, <2>2 DEF SelectCity, PickerInv, PickerTypeOK, Busy
    <2>4. PatientInv'
      <3> SUFFICES ASSUME ~hasty'
                   PROVE  /\ \A t \in Slots : question'[t] = None
                          /\ BranchIsOfTheChoice'
                          /\ PageShowsTheChoice'
        BY DEF PatientInv
      <3>1. \A t \in Slots : question'[t] = None
        BY <2>1 DEF SelectCity, Busy
      <3>2. Matching(customer, city, suburb)' = {}
        BY <1>0, <1>4, <2>3, PlacesAreNot DEF PickerTypeOK, Matching, AnyPlace
      <3>3. SuburbsOf(city') = {}
        BY <1>0, <1>4, NoSuburbs
      <3>. QED
        BY <1>0, <2>1, <2>2, <3>1, <3>2, <3>3 DEF BranchIsOfTheChoice, PageShowsTheChoice
    <2>. QED
      BY <2>3, <2>4 DEF PickerInv, SelectCity
  <1>5. CASE z # None
    <2> DEFINE q == [kind |-> "suburbs", city |-> z]
    <2>1. q \in Questions
      BY <1>5 DEF Questions
    <2>2. question' = [question EXCEPT ![s] = q] /\ UNCHANGED lists
      BY <1>1, <1>5
    <2>3. /\ question' \in [Slots -> Questions \cup {None}]
          /\ \A t \in Slots \ {s} : question'[t] = question[t]
          /\ question'[s] = q /\ question'[s] # None
      BY <1>2, <2>1, <2>2, Asked DEF PickerInv
    <2>4. PickerTypeOK'
      BY <1>0, <2>2, <2>3 DEF SelectCity, PickerInv, PickerTypeOK, lists, Busy
    <2>5. PatientInv'
      <3> SUFFICES ASSUME ~hasty'
                   PROVE  /\ \A t \in Slots \ {s} : question'[t] = None
                          /\ Agrees(question[s])'
                          /\ BranchIsOfTheChoice'
                          /\ PageShowsTheChoice'
        BY <1>2 DEF PatientInv
      <3>1. \A t \in Slots \ {s} : question'[t] = None
        BY <2>3 DEF SelectCity, Busy
      <3>2. Agrees(question[s])'
        BY <1>0, <2>3 DEF Agrees
      <3>3. Busy'
        BY <1>2, <2>3 DEF Busy
      <3>. QED
        BY <1>0, <3>1, <3>2, <3>3 DEF BranchIsOfTheChoice, PageShowsTheChoice
    <2>. QED
      BY <2>4, <2>5 DEF PickerInv, SelectCity
  <1>. QED
    BY <1>4, <1>5

LEMMA SuburbKeeps ==
  ASSUME PickerInv, NEW u \in suburbList \cup {None}, SelectSuburb(u)
  PROVE  PickerInv'
  <1>0. u \in Suburbs \cup {None}
    BY DEF PickerInv, PickerTypeOK
  <1>1. PICK s \in Free : RefreshBranches(s, customer, city, u, None)
    BY DEF SelectSuburb
  <1>2. s \in Slots /\ question[s] = None
    BY <1>1 DEF Free
  <1>3. customer \in Customers \cup {None} /\ city \in Cities \cup {None}
    BY DEF PickerInv, PickerTypeOK
  <1>4. /\ question' \in [Slots -> Questions \cup {None}]
        /\ branchList' \subseteq Places /\ branchShown' \in branchList' \cup {None}
        /\ \A t \in Slots \ {s} : question'[t] = question[t]
        /\ customer = None \/ city = None =>
             question'[s] = None /\ branchList' = {} /\ branchShown' = None
        /\ customer # None /\ city # None =>
             /\ question'[s] # None
             /\ question'[s] = [kind |-> "branches", customer |-> customer, city |-> city,
                                suburb |-> u, created |-> None]
    BY <1>0, <1>1, <1>2, <1>3, Refreshed DEF PickerInv
  <1>5. PickerTypeOK'
    BY <1>0, <1>4 DEF SelectSuburb, PickerInv, PickerTypeOK, Busy
  <1>6. PatientInv'
    <2> SUFFICES ASSUME ~hasty'
                 PROVE  /\ \A t \in Slots \ {s} : question'[t] = None
                        /\ question'[s] # None => Agrees(question[s])'
                        /\ BranchIsOfTheChoice'
                        /\ PageShowsTheChoice'
      BY <1>2 DEF PatientInv
    <2>1. ~hasty /\ ~Busy
      BY DEF SelectSuburb
    <2>2. SuburbsAreRight'
      BY <2>1 DEF SelectSuburb, PickerInv, PatientInv, PageShowsTheChoice, SuburbsAreRight,
                  SuburbsOf
    <2>3. \A t \in Slots \ {s} : question'[t] = None
      BY <1>4, <2>1 DEF Busy
    <2>4. question'[s] # None => Agrees(question[s])'
      BY <1>4, <2>2 DEF Agrees, SelectSuburb
    <2>5. PageShowsTheChoice'
      <3> SUFFICES ASSUME ~Busy' PROVE PageShowsTheChoice'
        BY DEF PageShowsTheChoice
      <3>1. question'[s] = None
        BY <1>2 DEF Busy
      <3>2. branchList' = {} /\ branchShown' = None /\ (customer = None \/ city = None)
        BY <1>4, <3>1
      <3>3. customer' = customer /\ city' = city
        BY DEF SelectSuburb
      <3>4. Matching(customer, city, suburb)' = {}
        BY <1>5, <3>2, <3>3, PlacesAreNot DEF PickerTypeOK, Matching, AnyPlace
      <3>. QED
        BY <2>2, <3>2, <3>4 DEF PageShowsTheChoice, SuburbsAreRight
    <2>6. BranchIsOfTheChoice'
      BY <2>1 DEF SelectSuburb, BranchIsOfTheChoice, PickerInv, PatientInv
    <2>. QED
      BY <2>3, <2>4, <2>5, <2>6
  <1>. QED
    BY <1>5, <1>6 DEF PickerInv, SelectSuburb

LEMMA BranchKeeps ==
  ASSUME PickerInv, NEW b \in branchList \cup {None}, SelectBranch(b)
  PROVE  PickerInv'
  <1>1. PickerTypeOK'
    BY DEF SelectBranch, PickerInv, PickerTypeOK, Busy
  <1>2. PatientInv'
    <2> SUFFICES ASSUME ~hasty' PROVE PatientInv'
      BY DEF PatientInv
    <2>1. ~hasty /\ ~Busy
      BY DEF SelectBranch
    <2>2. \A t \in Slots : question'[t] = None
      BY <2>1 DEF SelectBranch, Busy
    <2>3. b # None => b.customer = customer /\ b.city = city
      BY <2>1 DEF PickerInv, PatientInv, PageShowsTheChoice, Matching
    <2>4. BranchIsOfTheChoice'
      BY <2>3 DEF SelectBranch, BranchIsOfTheChoice
    <2>5. PageShowsTheChoice'
      BY <2>1 DEF SelectBranch, PickerInv, PatientInv, PageShowsTheChoice, Matching, SuburbsOf
    <2>. QED
      BY <2>2, <2>4, <2>5 DEF PatientInv
  <1>. QED
    BY <1>1, <1>2 DEF PickerInv, SelectBranch

LEMMA NewBranchKeeps ==
  ASSUME PickerInv, NewBranch
  PROVE  PickerInv'
  <1> DEFINE p == [customer |-> customer, city |-> city, suburb |-> suburb]
             q == [kind |-> "create", place |-> p]
  <1>1. PICK s \in Free : question' = [question EXCEPT ![s] = q]
    BY DEF NewBranch
  <1>2. s \in Slots /\ question[s] = None
    BY <1>1 DEF Free
  <1>3. p \in AnyPlace
    BY DEF NewBranch, PickerInv, PickerTypeOK, AnyPlace
  <1>4. q \in Questions
    BY <1>3 DEF Questions
  <1>5. /\ question' \in [Slots -> Questions \cup {None}]
        /\ \A t \in Slots \ {s} : question'[t] = question[t]
        /\ question'[s] = q /\ question'[s] # None
    BY <1>1, <1>2, <1>4, Asked DEF PickerInv
  <1>6. PickerTypeOK'
    BY <1>5 DEF NewBranch, PickerInv, PickerTypeOK, choice, lists, Busy
  <1>7. PatientInv'
    <2> SUFFICES ASSUME ~hasty'
                 PROVE  /\ \A t \in Slots \ {s} : question'[t] = None
                        /\ Agrees(question[s])'
                        /\ BranchIsOfTheChoice'
                        /\ PageShowsTheChoice'
      BY <1>2 DEF PatientInv
    <2>1. ~hasty /\ ~Busy
      BY DEF NewBranch
    <2>2. SuburbsAreRight'
      BY <2>1 DEF NewBranch, PickerInv, PatientInv, PageShowsTheChoice, SuburbsAreRight,
                  SuburbsOf, choice, lists
    <2>3. \A t \in Slots \ {s} : question'[t] = None
      BY <1>5, <2>1 DEF Busy
    <2>4. Agrees(question[s])'
      BY <1>5, <2>2 DEF Agrees, NewBranch, choice
    <2>5. Busy'
      BY <1>2, <1>5 DEF Busy
    <2>6. BranchIsOfTheChoice'
      BY <2>1 DEF NewBranch, BranchIsOfTheChoice, PickerInv, PatientInv, choice
    <2>. QED
      BY <2>3, <2>4, <2>5, <2>6 DEF PageShowsTheChoice
  <1>. QED
    BY <1>6, <1>7 DEF PickerInv, NewBranch, choice

--------------------------------------------------------------------------------
LEMMA AnswerSuburbsKeeps ==
  ASSUME PickerInv, NEW s \in Slots, AnswerSuburbs(s)
  PROVE  PickerInv'
  <1> DEFINE q == question[s]
  <1>1. q \in Questions /\ q # None /\ q.kind = "suburbs"
    BY DEF AnswerSuburbs, PickerInv, PickerTypeOK
  <1>2. /\ customer \in Customers \cup {None} /\ city \in Cities \cup {None}
        /\ None \in Suburbs \cup {None} /\ None \in Places \cup {None}
    BY DEF PickerInv, PickerTypeOK
  <1>3. RefreshBranches(s, customer, city, None, None)
    BY DEF AnswerSuburbs
  <1>4. /\ question' \in [Slots -> Questions \cup {None}]
        /\ branchList' \subseteq Places /\ branchShown' \in branchList' \cup {None}
        /\ \A t \in Slots \ {s} : question'[t] = question[t]
        /\ customer = None \/ city = None =>
             question'[s] = None /\ branchList' = {} /\ branchShown' = None
        /\ customer # None /\ city # None =>
             /\ question'[s] # None
             /\ question'[s] = [kind |-> "branches", customer |-> customer, city |-> city,
                                suburb |-> None, created |-> None]
    BY <1>2, <1>3, Refreshed DEF PickerInv
  <1>5. suburbList' = SuburbsOf(q.city) /\ suburbShown' = None
    BY DEF AnswerSuburbs
  <1>6. /\ step' = step /\ customer' = customer /\ city' = city /\ suburb' = suburb
        /\ branch' = branch /\ branches' = branches /\ hasty' = hasty
    BY DEF AnswerSuburbs, choice
  <1>7. PickerTypeOK'
    BY <1>4, <1>5, <1>6 DEF PickerInv, PickerTypeOK, SuburbsOf
  <1>8. PatientInv'
    <2> SUFFICES ASSUME ~hasty'
                 PROVE  /\ \A t \in Slots \ {s} : question'[t] = None
                        /\ question'[s] # None => Agrees(question[s])'
                        /\ BranchIsOfTheChoice'
                        /\ PageShowsTheChoice'
      BY DEF PatientInv
    <2>1. \A t \in Slots \ {s} : question[t] = None
      BY <1>1, <1>6 DEF PickerInv, PatientInv
    <2>2. q.city = city /\ suburb = None
      BY <1>1, <1>6 DEF PickerInv, PatientInv, Agrees
    <2>3. SuburbsAreRight'
      BY <1>5, <1>6, <2>2 DEF SuburbsAreRight, SuburbsOf
    <2>4. question'[s] # None => Agrees(question[s])'
      BY <1>4, <1>6, <2>2, <2>3 DEF Agrees
    <2>5. BranchIsOfTheChoice'
      BY <1>6 DEF BranchIsOfTheChoice, PickerInv, PatientInv
    <2>6. PageShowsTheChoice'
      <3> SUFFICES ASSUME ~Busy' PROVE PageShowsTheChoice'
        BY DEF PageShowsTheChoice
      <3>1. branchList' = {} /\ branchShown' = None /\ (customer = None \/ city = None)
        BY <1>4 DEF Busy
      <3>2. Matching(customer, city, suburb)' = {}
        BY <1>6, <1>7, <3>1, PlacesAreNot DEF PickerTypeOK, Matching, AnyPlace
      <3>. QED
        BY <2>3, <3>1, <3>2 DEF PageShowsTheChoice, SuburbsAreRight
    <2>. QED
      BY <1>4, <2>1, <2>4, <2>5, <2>6
  <1>. QED
    BY <1>6, <1>7, <1>8 DEF PickerInv

LEMMA AnswerBranchesKeeps ==
  ASSUME PickerInv, NEW s \in Slots, AnswerBranches(s)
  PROVE  PickerInv'
  <1> DEFINE q == question[s]
             found == Matching(q.customer, q.city, q.suburb)
  <1>1. q \in Questions /\ q # None /\ q.kind = "branches"
    BY DEF AnswerBranches, PickerInv, PickerTypeOK
  <1>2. q.created \in Places \cup {None}
    BY <1>1, Kinds
  <1>3. /\ question' \in [Slots -> Questions \cup {None}]
        /\ \A t \in Slots \ {s} : question'[t] = question[t]
        /\ question'[s] = None
    BY Answered DEF AnswerBranches, PickerInv
  <1>4. /\ branchList' = found
        /\ branchShown' = IF q.created \in found THEN q.created ELSE None
        /\ branch' = IF q.created # None THEN q.created ELSE branch
    BY DEF AnswerBranches
  <1>5. /\ step' = step /\ customer' = customer /\ city' = city /\ suburb' = suburb
        /\ suburbList' = suburbList /\ suburbShown' = suburbShown
        /\ branches' = branches /\ hasty' = hasty
    BY DEF AnswerBranches
  <1>6. found \subseteq Places
    BY MatchingType DEF PickerInv
  <1>7. PickerTypeOK'
    <2>1. branch' \in Places \cup {None}
      BY <1>2, <1>4 DEF PickerInv, PickerTypeOK
    <2>2. branchList' \subseteq Places /\ branchShown' \in branchList' \cup {None}
      BY <1>4, <1>6
    <2>. QED
      BY <1>3, <1>5, <2>1, <2>2 DEF PickerInv, PickerTypeOK
  <1>8. PatientInv'
    <2> SUFFICES ASSUME ~hasty'
                 PROVE  /\ \A t \in Slots : question'[t] = None
                        /\ BranchIsOfTheChoice'
                        /\ PageShowsTheChoice'
      BY DEF PatientInv
    <2>1. \A t \in Slots : question'[t] = None
      BY <1>1, <1>3, <1>5 DEF PickerInv, PatientInv
    <2>2. /\ q.customer = customer /\ q.city = city /\ q.suburb = suburb
          /\ q.created # None => q.created.customer = customer /\ q.created.city = city
          /\ SuburbsAreRight
      BY <1>1, <1>5 DEF PickerInv, PatientInv, Agrees
    <2>3. BranchIsOfTheChoice'
      BY <1>4, <1>5, <2>2 DEF BranchIsOfTheChoice, PickerInv, PatientInv
    <2>4. Matching(customer, city, suburb)' = found
      BY <1>5, <2>2 DEF Matching
    <2>5. branchShown' # None => branch' = branchShown'
      BY <1>4
    <2>6. suburbList' = SuburbsOf(city') /\ suburbShown' = suburb'
      BY <1>5, <2>2 DEF SuburbsAreRight
    <2>. QED
      BY <1>4, <2>1, <2>3, <2>4, <2>5, <2>6 DEF PageShowsTheChoice
  <1>. QED
    BY <1>7, <1>8 DEF PickerInv

LEMMA AnswerCreateKeeps ==
  ASSUME PickerInv, NEW s \in Slots, AnswerCreate(s)
  PROVE  PickerInv'
  <1> DEFINE q == question[s]
             p == question[s].place
  <1>1. q \in Questions /\ q # None /\ q.kind = "create" /\ p \in Places
    BY DEF AnswerCreate, PickerInv, PickerTypeOK
  <1>2. /\ customer \in Customers \cup {None} /\ city \in Cities \cup {None}
        /\ suburb \in Suburbs \cup {None} /\ p \in Places \cup {None}
    BY <1>1 DEF PickerInv, PickerTypeOK
  <1>3. RefreshBranches(s, customer, city, suburb, p)
    BY DEF AnswerCreate
  <1>4. /\ question' \in [Slots -> Questions \cup {None}]
        /\ branchList' \subseteq Places /\ branchShown' \in branchList' \cup {None}
        /\ \A t \in Slots \ {s} : question'[t] = question[t]
        /\ customer # None /\ city # None =>
             /\ question'[s] # None
             /\ question'[s] = [kind |-> "branches", customer |-> customer, city |-> city,
                                suburb |-> suburb, created |-> p]
    BY <1>2, <1>3, Refreshed DEF PickerInv
  <1>5. /\ step' = step /\ customer' = customer /\ city' = city /\ suburb' = suburb
        /\ suburbList' = suburbList /\ suburbShown' = suburbShown /\ hasty' = hasty
        /\ branches' = branches \cup {p}
        /\ branch' = IF customer = None \/ city = None THEN p ELSE branch
    BY DEF AnswerCreate
  <1>6. PickerTypeOK'
    <2>1. branch' \in Places \cup {None} /\ branches' \subseteq Places
      BY <1>1, <1>5 DEF PickerInv, PickerTypeOK
    <2>. QED
      BY <1>4, <1>5, <2>1 DEF PickerInv, PickerTypeOK
  <1>7. PatientInv'
    <2> SUFFICES ASSUME ~hasty'
                 PROVE  /\ \A t \in Slots \ {s} : question'[t] = None
                        /\ Agrees(question[s])'
                        /\ BranchIsOfTheChoice'
                        /\ PageShowsTheChoice'
      BY DEF PatientInv
    <2>1. \A t \in Slots \ {s} : question'[t] = None
      BY <1>1, <1>4, <1>5 DEF PickerInv, PatientInv
    <2>2. p.customer = customer /\ p.city = city /\ SuburbsAreRight
      BY <1>1, <1>5 DEF PickerInv, PatientInv, Agrees
    <2>3. customer # None /\ city # None
      BY <1>1, <2>2, PlacesAreNot DEF AnyPlace
    <2>4. SuburbsAreRight'
      BY <1>5, <2>2 DEF SuburbsAreRight, SuburbsOf
    <2>5. Agrees(question[s])'
      BY <1>4, <1>5, <2>2, <2>3, <2>4 DEF Agrees
    <2>6. BranchIsOfTheChoice'
      BY <1>5, <2>3 DEF BranchIsOfTheChoice, PickerInv, PatientInv
    <2>7. Busy'
      BY <1>4, <2>3 DEF Busy
    <2>. QED
      BY <2>1, <2>5, <2>6, <2>7 DEF PageShowsTheChoice
  <1>. QED
    BY <1>6, <1>7 DEF PickerInv

LEMMA LostKeeps ==
  ASSUME PickerInv, NEW s \in Slots, Lost(s)
  PROVE  PickerInv'
  <1>1. question' \in [Slots -> Questions \cup {None}]
    BY Answered DEF Lost, PickerInv
  <1>2. branches' \subseteq Places
    BY DEF Lost, PickerInv, PickerTypeOK
  <1>. QED
    BY <1>1, <1>2 DEF Lost, PickerInv, PickerTypeOK, PatientInv, choice, lists

(* A step that changes nothing but the step that is shown.                      *)
LEMMA ShowKeeps ==
  ASSUME PickerInv, NEW n \in 1..5, step' = n,
         UNCHANGED <<choice, lists, question, branches, hasty>>
  PROVE  PickerInv'
  <1>1. PickerTypeOK'
    BY DEF PickerInv, PickerTypeOK, choice, lists
  <1>2. PatientInv'
    BY DEF PickerInv, PatientInv, Agrees, SuburbsAreRight, SuburbsOf, Matching, Busy,
           BranchIsOfTheChoice, PageShowsTheChoice, choice, lists
  <1>. QED
    BY <1>1, <1>2 DEF PickerInv

LEMMA PickerStutters ==
  ASSUME PickerInv, UNCHANGED picker
  PROVE  PickerInv'
  BY DEF picker, choice, lists, PickerInv, PickerTypeOK, PatientInv, Agrees, SuburbsAreRight,
         SuburbsOf, Matching, Busy, BranchIsOfTheChoice, PageShowsTheChoice

LEMMA PickerSteps ==
  ASSUME PickerInv, PickerNext
  PROVE  PickerInv'
  <1>1. ASSUME Step1Next PROVE PickerInv'
    BY <1>1, ShowKeeps DEF Step1Next
  <1>2. ASSUME Step2Back PROVE PickerInv'
    BY <1>2, ShowKeeps DEF Step2Back
  <1>. QED
    BY <1>1, <1>2, CustomerKeeps, CityKeeps, SuburbKeeps, BranchKeeps, NewBranchKeeps,
       AnswerSuburbsKeeps, AnswerBranchesKeeps, AnswerCreateKeeps, LostKeeps DEF PickerNext

--------------------------------------------------------------------------------
(* The page has a branch from step 2 on, or a link already, and a link from     *)
(* step 4 on; links that are asked for exist, and only a link with SNMP has     *)
(* interfaces.                                                                  *)
Creating(s)  == asked[s] # None /\ asked[s].kind = "create"
Selecting(s) == asked[s] # None /\ asked[s].kind = "select"

LinksInv ==
  /\ step > 1 /\ wanLinkId = None => branch # None
  /\ step > 3 => wanLinkId # None
  /\ wanLinkId # None => links[wanLinkId] # None
  /\ \A s \in Slots : asked[s] # None /\ asked[s].link # None => links[asked[s].link] # None
  /\ \A l \in LinkIds : links[l] # None /\ links[l].stored # {} => links[l].snmp

(* Until a creation is repeated: a link is the page's, or its creation is the   *)
(* one in flight; what the page shows and waits for concerns that link.         *)
OnceInv ==
  ~repeated =>
    /\ \A s, t \in Slots : Creating(s) /\ Creating(t) => s = t
    /\ \A s \in Slots : Creating(s) => wanLinkId = None /\ asked[s].snmp = snmpEnabled
    /\ \A s \in Slots : asked[s] # None /\ ~Creating(s) => asked[s].link = wanLinkId
    /\ \A l \in LinkIds : links[l] # None =>
         l = wanLinkId \/ \E s \in Slots : Creating(s) /\ asked[s].link = l

StoredInv ==
  ~repeated =>
    /\ wanLinkId = None =>
         /\ selectedIfIndex = None /\ discovered = {}
         /\ \A l \in LinkIds : links[l] # None => links[l].selected = None
    /\ wanLinkId # None =>
         /\ discovered \subseteq links[wanLinkId].stored
         /\ selectedIfIndex # None => selectedIfIndex \in links[wanLinkId].stored
    /\ \A s \in Slots : asked[s] # None =>
         /\ asked[s].kind = "discover" => asked[s].found \subseteq links[asked[s].link].stored
         /\ asked[s].kind = "select" /\ asked[s].done =>
              asked[s].index \in links[asked[s].link].stored
    /\ step = 5 /\ snmpEnabled => review # None /\ review \in links[wanLinkId].stored

(* One selection in flight: it is stored before it is shown.                    *)
SelectionInv ==
  ~repeated /\ ~muddled =>
    /\ \A s, t \in Slots : Selecting(s) /\ Selecting(t) => s = t
    /\ \A s \in Slots : Selecting(s) /\ asked[s].done =>
         links[wanLinkId].selected = asked[s].index
    /\ wanLinkId # None /\ (\A s \in Slots : Selecting(s) => ~asked[s].done) =>
         links[wanLinkId].selected = selectedIfIndex

WizardInv == LinksInv /\ OnceInv /\ StoredInv /\ SelectionInv
Inv       == TypeOK /\ PickerInv /\ WizardInv

LEMMA RequestKinds ==
  /\ \A q \in Creations :
       /\ q # None /\ q.kind = "create" /\ q.branch \in Places /\ q.snmp \in BOOLEAN
       /\ q.link \in LinkIds \cup {None}
  /\ \A q \in Discoveries :
       /\ q # None /\ q.kind = "discover" /\ q.link \in LinkIds
       /\ q.found \subseteq Indices /\ q.done \in BOOLEAN
  /\ \A q \in Selections :
       /\ q # None /\ q.kind = "select" /\ q.link \in LinkIds
       /\ q.index \in Indices /\ q.done \in BOOLEAN
  BY OnboardingAssumption DEF Creations, Discoveries, Selections

LEMMA NoneIsNoId ==
  /\ \A l \in LinkIds : l # None
  /\ \A i \in Indices : i # None
  /\ \A row \in Links :
       /\ row # None /\ row.branch \in Places /\ row.snmp \in BOOLEAN
       /\ row.stored \subseteq Indices /\ row.selected \in Indices \cup {None}
  BY OnboardingAssumption DEF Links

LEMMA RequestType ==
  ASSUME TypeOK, NEW s \in Slots, asked[s] # None
  PROVE  /\ asked[s].kind = "create" => asked[s] \in Creations
         /\ asked[s].kind = "discover" => asked[s] \in Discoveries
         /\ asked[s].kind = "select" => asked[s] \in Selections
         /\ asked[s].kind = "create" \/ asked[s].kind = "discover" \/ asked[s].kind = "select"
  <1>1. asked[s] \in Creations \cup Discoveries \cup Selections
    BY DEF TypeOK
  <1>. QED
    BY <1>1, RequestKinds

LEMMA AskedFor ==
  ASSUME TypeOK, NEW s \in Slots, NEW q \in Creations \cup Discoveries \cup Selections,
         asked' = [asked EXCEPT ![s] = q]
  PROVE  /\ asked' \in [Slots -> Creations \cup Discoveries \cup Selections \cup {None}]
         /\ \A t \in Slots \ {s} : asked'[t] = asked[t]
         /\ asked'[s] = q /\ asked'[s] # None
  BY RequestKinds DEF TypeOK

LEMMA Ended ==
  ASSUME TypeOK, NEW s \in Slots, asked' = [asked EXCEPT ![s] = None]
  PROVE  /\ asked' \in [Slots -> Creations \cup Discoveries \cup Selections \cup {None}]
         /\ \A t \in Slots \ {s} : asked'[t] = asked[t]
         /\ asked'[s] = None
  BY DEF TypeOK

LEMMA Initially == Init => Inv
  <1> SUFFICES ASSUME Init PROVE Inv
    OBVIOUS
  <1>1. PickerInv /\ step = 1
    BY PickerInitially DEF Init, PickerInit
  <1>2. PickerTypeOK
    BY <1>1 DEF PickerInv
  <1>3. /\ asked \in [Slots -> Creations \cup Discoveries \cup Selections \cup {None}]
        /\ links \in [LinkIds -> Links \cup {None}]
        /\ \A s \in Slots : asked[s] = None
        /\ \A l \in LinkIds : links[l] = None
    BY DEF Init
  <1>4. TypeOK
    BY <1>2, <1>3 DEF Init, TypeOK
  <1>5. LinksInv
    BY <1>1, <1>3 DEF Init, LinksInv
  <1>6. OnceInv
    BY <1>3 DEF Init, OnceInv, Creating
  <1>7. StoredInv
    BY <1>1, <1>3 DEF Init, StoredInv
  <1>8. SelectionInv
    BY <1>3 DEF Init, SelectionInv, Selecting
  <1>. QED
    BY <1>1, <1>4, <1>5, <1>6, <1>7, <1>8 DEF Inv, WizardInv

(* A step that turns the page and touches nothing else.                         *)
LEMMA TurnKeeps ==
  ASSUME Inv, NEW n \in 1..5, Show(n),
         n > 1 /\ wanLinkId = None => branch # None,
         UNCHANGED <<form, server, history>>,
         n > 3 => wanLinkId # None,
         n = 5 /\ snmpEnabled /\ ~repeated => selectedIfIndex # None
  PROVE  Inv'
  <1>1. PickerInv'
    BY ShowKeeps DEF Inv, Show
  <1>2. TypeOK'
    BY <1>1 DEF Show, Inv, TypeOK, PickerInv, form, server, history
  <1>3. step' = n /\ (n = 5 => review' = selectedIfIndex)
    BY DEF Show
  <1>4. WizardInv'
    <2>1. branch' = branch
      BY DEF Show, choice
    <2>. QED
      BY <1>3, <2>1 DEF Inv, form, server, history, WizardInv, LinksInv, OnceInv, StoredInv,
                        SelectionInv, Creating, Selecting
  <1>. QED
    BY <1>1, <1>2, <1>4 DEF Inv

LEMMA PagesTurn ==
  ASSUME Inv, Step2Next \/ Step3Back \/ Step4Back \/ Step4Next \/ Step5Back
  PROVE  Inv'
  <1>0. /\ step > 1 /\ wanLinkId = None => branch # None
        /\ step > 3 => wanLinkId # None
        /\ snmpEnabled \in BOOLEAN
        /\ discovered \subseteq Indices
    BY DEF Inv, PickerInv, WizardInv, LinksInv, TypeOK
  <1>1. CASE Step2Next
    BY <1>0, <1>1, TurnKeeps DEF Step2Next
  <1>2. CASE Step3Back
    BY <1>0, <1>2, TurnKeeps DEF Step3Back
  <1>3. CASE Step4Back
    BY <1>0, <1>3, TurnKeeps DEF Step4Back
  <1>4. CASE Step4Next
    <2>1. selectedIfIndex # None
      BY <1>0, <1>4, NoneIsNoId DEF Step4Next, NextEnabled
    <2>. QED
      BY <1>0, <1>4, <2>1, TurnKeeps DEF Step4Next
  <1>5. CASE Step5Back
    <2>1. CASE snmpEnabled
      BY <1>0, <1>5, <2>1, TurnKeeps DEF Step5Back
    <2>2. CASE ~snmpEnabled
      BY <1>0, <1>5, <2>2, TurnKeeps DEF Step5Back
    <2>. QED
      BY <2>1, <2>2
  <1>. QED
    BY <1>1, <1>2, <1>3, <1>4, <1>5

(* Only step 1 gives up a branch.                                               *)
LEMMA BranchStays ==
  ASSUME PickerInv, PickerNext
  PROVE  step' > 1 => branch' # None \/ (step > 1 /\ branch' = branch)
  <1>1. step \in 1..5
    BY DEF PickerInv, PickerTypeOK
  <1>2. ASSUME step = 1, ~Step1Next PROVE step' = 1
    BY <1>2 DEF PickerNext, SelectCustomer, SelectCity, SelectSuburb, SelectBranch, NewBranch,
                Step2Back, AnswerSuburbs, AnswerBranches, AnswerCreate, Lost
  <1>3. ASSUME Step1Next PROVE branch' # None
    BY <1>3 DEF Step1Next, choice
  <1>4. ASSUME step > 1 PROVE branch' # None \/ branch' = branch
    <2>1. \A s \in Slots : AnswerBranches(s) => branch' # None \/ branch' = branch
      BY DEF AnswerBranches
    <2>2. \A s \in Slots : AnswerCreate(s) => branch' # None \/ branch' = branch
      BY PlacesAreNot DEF AnswerCreate
    <2>3. \A s \in Slots : AnswerSuburbs(s) \/ Lost(s) => branch' = branch
      BY DEF AnswerSuburbs, Lost, choice
    <2>. QED
      BY <1>4, <2>1, <2>2, <2>3
         DEF PickerNext, SelectCustomer, SelectCity, SelectSuburb, SelectBranch, NewBranch,
             Step1Next, Step2Back, choice
  <1>. QED
    BY <1>1, <1>2, <1>3, <1>4

LEMMA PickerKeeps ==
  ASSUME Inv, PickerNext, UNCHANGED <<review, form, server, history>>
  PROVE  Inv'
  <1>1. PickerInv'
    BY PickerSteps DEF Inv
  <1>2. TypeOK'
    BY <1>1 DEF Inv, TypeOK, PickerInv, form, server, history
  <1>3. step' = step \/ step' = 1 \/ step' = 2
    BY DEF PickerNext, SelectCustomer, SelectCity, SelectSuburb, SelectBranch, NewBranch,
           Step1Next, Step2Back, AnswerSuburbs, AnswerBranches, AnswerCreate, Lost
  <1>4. step' > 1 => branch' # None \/ (step > 1 /\ branch' = branch)
    BY BranchStays DEF Inv
  <1>5. WizardInv'
    BY <1>3, <1>4 DEF Inv, form, server, history, WizardInv, LinksInv, OnceInv, StoredInv,
                SelectionInv, Creating, Selecting
  <1>. QED
    BY <1>1, <1>2, <1>5 DEF Inv

(* Step3Next: either the link is there and the page turns, or a creation is     *)
(* asked for.                                                                   *)
LEMMA Step3NextKeeps ==
  ASSUME Inv, NEW snmp \in BOOLEAN, Step3Next(snmp)
  PROVE  Inv'
  <1>0. /\ step = 3 /\ snmpEnabled' = snmp
        /\ UNCHANGED <<wanLinkId, selectedIfIndex, discovered, listed, links, muddled>>
    BY DEF Step3Next
  <1>1. CASE MustCreate
    <2> DEFINE q == [kind |-> "create", branch |-> branch, snmp |-> snmp, link |-> None]
    <2>1. wanLinkId = None
      BY <1>1 DEF MustCreate
    <2>2. PICK s \in FreeSlots : asked' = [asked EXCEPT ![s] = q]
      BY <1>1 DEF Step3Next
    <2>3. /\ UNCHANGED <<picker, review>>
          /\ repeated' = (repeated \/ InFlight("create"))
      BY <1>1 DEF Step3Next, WaitForTheLink
    <2>4. s \in Slots /\ asked[s] = None
      BY <2>2 DEF FreeSlots
    <2>5. q \in Creations
      BY <1>0, <2>1 DEF Inv, PickerInv, PickerTypeOK, WizardInv, LinksInv, Creations
    <2>6. /\ asked' \in [Slots -> Creations \cup Discoveries \cup Selections \cup {None}]
          /\ \A t \in Slots \ {s} : asked'[t] = asked[t]
          /\ asked'[s] = q /\ asked'[s] # None
      BY <2>2, <2>4, <2>5, AskedFor DEF Inv
    <2>7. PickerInv'
      BY <2>3, PickerStutters DEF Inv
    <2>8. TypeOK'
      BY <1>0, <2>3, <2>6, <2>7 DEF Inv, TypeOK, PickerInv
    <2>9. step' = step /\ branch' = branch
      BY <2>3 DEF picker, choice
    <2>10. LinksInv'
      BY <1>0, <2>6, <2>9 DEF Inv, WizardInv, LinksInv
    <2>11. /\ asked'[s].kind = "create" /\ asked'[s].link = None
           /\ asked'[s].snmp = snmp /\ asked'[s] # None
      BY <2>6
    <2>12. ~repeated' => ~repeated /\ \A t \in Slots : ~Creating(t)
      BY <2>3 DEF InFlight, Creating
    <2>13. OnceInv'
      <3> SUFFICES ASSUME ~repeated' PROVE OnceInv'
        BY DEF OnceInv
      <3>1. \A t \in Slots \ {s} : ~Creating(t)'
        BY <2>6, <2>12 DEF Creating
      <3>2. \A l \in LinkIds : links[l] = None
        BY <2>1, <2>12, NoneIsNoId DEF Inv, WizardInv, OnceInv
      <3>3. \A t \in Slots : asked'[t] # None /\ ~Creating(t)' => asked'[t].link = wanLinkId'
        BY <1>0, <2>6, <2>11, <2>12 DEF Inv, WizardInv, OnceInv, Creating
      <3>4. \A r, t \in Slots : Creating(r)' /\ Creating(t)' => r = t
        BY <3>1
      <3>5. \A t \in Slots : Creating(t)' => wanLinkId' = None /\ asked'[t].snmp = snmpEnabled'
        BY <1>0, <2>1, <2>11, <3>1
      <3>. QED
        BY <1>0, <3>2, <3>3, <3>4, <3>5 DEF OnceInv
    <2>14. StoredInv'
      <3> SUFFICES ASSUME ~repeated' PROVE StoredInv'
        BY DEF StoredInv
      <3>1. \A t \in Slots : asked'[t] # None =>
              /\ asked'[t].kind = "discover" =>
                   asked'[t].found \subseteq links[asked'[t].link].stored
              /\ asked'[t].kind = "select" /\ asked'[t].done =>
                   asked'[t].index \in links[asked'[t].link].stored
        BY <2>6, <2>11, <2>12 DEF Inv, WizardInv, StoredInv
      <3>. QED
        BY <1>0, <2>1, <2>9, <2>12, <3>1 DEF Inv, WizardInv, StoredInv
    <2>15. SelectionInv'
      <3>1. \A t \in Slots : Selecting(t)' => Selecting(t) /\ asked'[t] = asked[t]
        BY <2>6, <2>11 DEF Selecting
      <3>. QED
        BY <1>0, <2>1, <2>12, <3>1 DEF Inv, WizardInv, SelectionInv
    <2>. QED
      BY <2>7, <2>8, <2>10, <2>13, <2>14, <2>15 DEF Inv, WizardInv
  <1>2. CASE ~MustCreate
    <2>1. wanLinkId # None
      BY <1>2 DEF MustCreate
    <2>2. Show(AfterCreation(snmp)) /\ UNCHANGED <<asked, repeated>>
      BY <1>2 DEF Step3Next
    <2>3. /\ AfterCreation(snmp) \in 1..5
          /\ AfterCreation(snmp) = 5 => ~snmp
      BY DEF AfterCreation
    <2>4. step' = AfterCreation(snmp)
      BY <2>2 DEF Show
    <2>5. PickerInv'
      BY <1>0, <2>2, <2>3, ShowKeeps DEF Inv, PickerInv, Show
    <2>6. TypeOK'
      BY <1>0, <2>2, <2>5 DEF Show, Inv, TypeOK, PickerInv
    <2>7. LinksInv'
      BY <1>0, <2>1, <2>2 DEF Inv, WizardInv, LinksInv
    <2>8. OnceInv'
      BY <1>0, <2>1, <2>2 DEF Inv, WizardInv, OnceInv, Creating
    <2>9. StoredInv'
      BY <1>0, <2>2, <2>3, <2>4 DEF Inv, WizardInv, StoredInv
    <2>10. SelectionInv'
      BY <1>0, <2>2 DEF Inv, WizardInv, SelectionInv, Selecting
    <2>. QED
      BY <2>5, <2>6, <2>7, <2>8, <2>9, <2>10 DEF Inv, WizardInv
  <1>. QED
    BY <1>1, <1>2

LEMMA DiscoverKeeps ==
  ASSUME Inv, Discover
  PROVE  Inv'
  <1> DEFINE q == [kind |-> "discover", link |-> wanLinkId, found |-> {}, done |-> FALSE]
  <1>1. PICK s \in FreeSlots : asked' = [asked EXCEPT ![s] = q]
    BY DEF Discover
  <1>2. s \in Slots /\ asked[s] = None
    BY <1>1 DEF FreeSlots
  <1>3. step = 4 /\ listed' = FALSE
        /\ UNCHANGED <<picker, review, snmpEnabled, wanLinkId, selectedIfIndex, discovered, links,
                       history>>
    BY DEF Discover
  <1>4. wanLinkId # None /\ wanLinkId \in LinkIds
    BY <1>3 DEF Inv, WizardInv, LinksInv, TypeOK
  <1>5. q \in Discoveries
    BY <1>4 DEF Discoveries
  <1>6. /\ asked' \in [Slots -> Creations \cup Discoveries \cup Selections \cup {None}]
        /\ \A t \in Slots \ {s} : asked'[t] = asked[t]
        /\ asked'[s] = q /\ asked'[s] # None
    BY <1>1, <1>2, <1>5, AskedFor DEF Inv
  <1>7. PickerInv' /\ step' = step /\ branch' = branch
    BY <1>3, PickerStutters DEF Inv, picker, choice
  <1>8. TypeOK'
    BY <1>3, <1>6, <1>7 DEF Inv, TypeOK, PickerInv, history
  <1>9. LinksInv'
    BY <1>3, <1>4, <1>6, <1>7 DEF Inv, WizardInv, LinksInv
  <1>10. OnceInv'
    BY <1>2, <1>3, <1>6 DEF Inv, WizardInv, OnceInv, Creating, history
  <1>11. StoredInv'
    BY <1>3, <1>4, <1>6, <1>7 DEF Inv, WizardInv, StoredInv, history
  <1>12. SelectionInv'
    BY <1>2, <1>3, <1>6 DEF Inv, WizardInv, SelectionInv, Selecting, history
  <1>. QED
    BY <1>7, <1>8, <1>9, <1>10, <1>11, <1>12 DEF Inv, WizardInv

LEMMA SelectKeeps ==
  ASSUME Inv, NEW i \in Indices, SelectInterface(i)
  PROVE  Inv'
  <1> DEFINE q == [kind |-> "select", link |-> wanLinkId, index |-> i, done |-> FALSE]
  <1>1. PICK s \in FreeSlots : asked' = [asked EXCEPT ![s] = q]
    BY DEF SelectInterface
  <1>2. s \in Slots /\ asked[s] = None
    BY <1>1 DEF FreeSlots
  <1>3. /\ step = 4 /\ muddled' = (muddled \/ InFlight("select"))
        /\ UNCHANGED <<picker, review, snmpEnabled, wanLinkId, selectedIfIndex, discovered, listed,
                       links, repeated>>
    BY DEF SelectInterface, Clicked
  <1>4. wanLinkId # None /\ wanLinkId \in LinkIds
    BY <1>3 DEF Inv, WizardInv, LinksInv, TypeOK
  <1>5. q \in Selections
    BY <1>4 DEF Selections
  <1>6. /\ asked' \in [Slots -> Creations \cup Discoveries \cup Selections \cup {None}]
        /\ \A t \in Slots \ {s} : asked'[t] = asked[t]
        /\ asked'[s] = q /\ asked'[s] # None
    BY <1>1, <1>2, <1>5, AskedFor DEF Inv
  <1>7. PickerInv' /\ step' = step /\ branch' = branch
    BY <1>3, PickerStutters DEF Inv, picker, choice
  <1>8. TypeOK'
    BY <1>3, <1>6, <1>7 DEF Inv, TypeOK, PickerInv
  <1>9. LinksInv'
    BY <1>3, <1>4, <1>6, <1>7 DEF Inv, WizardInv, LinksInv
  <1>10. OnceInv'
    BY <1>2, <1>3, <1>6 DEF Inv, WizardInv, OnceInv, Creating
  <1>11. StoredInv'
    BY <1>3, <1>4, <1>6, <1>7 DEF Inv, WizardInv, StoredInv
  <1>12. SelectionInv'
    <2> SUFFICES ASSUME ~repeated', ~muddled' PROVE SelectionInv'
      BY DEF SelectionInv
    <2>1. \A t \in Slots : ~Selecting(t)
      BY <1>3 DEF InFlight, Selecting
    <2>2. \A t \in Slots \ {s} : ~Selecting(t)'
      BY <1>6, <2>1 DEF Selecting
    <2>3. links[wanLinkId].selected = selectedIfIndex
      BY <1>3, <1>4, <2>1 DEF Inv, WizardInv, SelectionInv
    <2>. QED
      BY <1>3, <1>6, <2>2, <2>3 DEF SelectionInv, Selecting
  <1>. QED
    BY <1>7, <1>8, <1>9, <1>10, <1>11, <1>12 DEF Inv, WizardInv

--------------------------------------------------------------------------------
(* The server's steps: only the links and the request served change.            *)
LEMMA ServeCreationKeeps ==
  ASSUME Inv, NEW s \in Slots, ServeCreation(s)
  PROVE  Inv'
  <1> DEFINE q == asked[s]
             row == [branch |-> q.branch, snmp |-> q.snmp, stored |-> {}, selected |-> None]
  <1>1. q # None /\ q.kind = "create" /\ q.link = None /\ q \in Creations
    BY RequestType DEF ServeCreation, Inv
  <1>2. PICK l \in LinkIds :
          /\ links[l] = None
          /\ links' = [links EXCEPT ![l] = row]
          /\ asked' = [asked EXCEPT ![s].link = l]
    BY DEF ServeCreation
  <1>3. UNCHANGED <<picker, review, form, history>>
    BY DEF ServeCreation
  <1>4. row \in Links /\ row # None
    BY <1>1, RequestKinds, NoneIsNoId DEF Links
  <1>5. links \in [LinkIds -> Links \cup {None}]
    BY DEF Inv, TypeOK
  <1>6. /\ links' \in [LinkIds -> Links \cup {None}]
        /\ links'[l] = row
        /\ \A k \in LinkIds \ {l} : links'[k] = links[k]
    BY <1>2, <1>4, <1>5
  <1>7. asked' = [asked EXCEPT ![s] = [q EXCEPT !.link = l]]
    BY <1>2
  <1>8. [q EXCEPT !.link = l] \in Creations /\ [q EXCEPT !.link = l].link = l
        /\ [q EXCEPT !.link = l].kind = "create" /\ [q EXCEPT !.link = l].snmp = q.snmp
    BY <1>1 DEF Creations
  <1>9. /\ asked' \in [Slots -> Creations \cup Discoveries \cup Selections \cup {None}]
        /\ \A t \in Slots \ {s} : asked'[t] = asked[t]
        /\ asked'[s] # None /\ asked'[s].link = l /\ asked'[s].kind = "create"
        /\ asked'[s].snmp = q.snmp
    BY <1>7, <1>8, AskedFor DEF Inv
  <1>10. PickerInv' /\ step' = step /\ branch' = branch
    BY <1>3, PickerStutters DEF Inv, picker, choice
  <1>11. /\ UNCHANGED <<review, snmpEnabled, wanLinkId, selectedIfIndex, discovered, listed>>
         /\ UNCHANGED <<repeated, muddled>>
    BY <1>3 DEF form, history
  <1>12. TypeOK'
    BY <1>6, <1>9, <1>10, <1>11 DEF Inv, TypeOK, PickerInv
  <1>13. \A k \in LinkIds : links[k] # None => links'[k] = links[k]
    BY <1>2, <1>6
  <1>14. /\ wanLinkId # None => wanLinkId \in LinkIds /\ links[wanLinkId] # None
         /\ \A t \in Slots : asked[t] # None /\ asked[t].link # None =>
              asked[t].link \in LinkIds /\ links[asked[t].link] # None
    BY RequestType, RequestKinds DEF Inv, TypeOK, WizardInv, LinksInv
  <1>15. LinksInv'
    <2>1. \A t \in Slots : asked'[t] # None /\ asked'[t].link # None =>
            links'[asked'[t].link] # None
      BY <1>4, <1>6, <1>9, <1>13, <1>14
    <2>2. \A k \in LinkIds : links'[k] # None /\ links'[k].stored # {} => links'[k].snmp
      BY <1>6 DEF Inv, WizardInv, LinksInv
    <2>3. wanLinkId # None => links'[wanLinkId] # None
      BY <1>13, <1>14
    <2>4. /\ step > 3 => wanLinkId # None
          /\ step > 1 /\ wanLinkId = None => branch # None
      BY DEF Inv, WizardInv, LinksInv
    <2>. QED
      BY <1>10, <1>11, <2>1, <2>2, <2>3, <2>4 DEF LinksInv
  <1>16. \A t \in Slots : /\ Creating(t)' <=> Creating(t)
                          /\ asked'[t] # None <=> asked[t] # None
                          /\ Selecting(t)' <=> Selecting(t)
    BY <1>1, <1>9 DEF Creating, Selecting
  <1>17. OnceInv'
    <2> SUFFICES ASSUME ~repeated PROVE OnceInv'
      BY <1>11 DEF OnceInv
    <2>1. \A t \in Slots : Creating(t) => t = s
      BY <1>1 DEF Inv, WizardInv, OnceInv, Creating
    <2>2. \A k \in LinkIds : links[k] # None => k = wanLinkId
      BY <1>1, <2>1, NoneIsNoId DEF Inv, WizardInv, OnceInv
    <2>3. \A k \in LinkIds : links'[k] # None =>
            k = wanLinkId \/ \E t \in Slots : Creating(t)' /\ asked'[t].link = k
      BY <1>1, <1>6, <1>9, <1>16, <2>2 DEF Creating
    <2>4. \A t \in Slots : Creating(t)' => wanLinkId = None /\ asked'[t].snmp = snmpEnabled
      BY <1>9, <1>16, <2>1 DEF Inv, WizardInv, OnceInv
    <2>5. \A t \in Slots : asked'[t] # None /\ ~Creating(t)' => asked'[t].link = wanLinkId
      BY <1>1, <1>9, <1>16 DEF Inv, WizardInv, OnceInv, Creating
    <2>6. \A r, t \in Slots : Creating(r)' /\ Creating(t)' => r = t
      BY <1>16, <2>1
    <2>. QED
      BY <1>11, <2>3, <2>4, <2>5, <2>6 DEF OnceInv
  <1>18. StoredInv'
    <2> SUFFICES ASSUME ~repeated PROVE StoredInv'
      BY <1>11 DEF StoredInv
    <2>1. \A k \in LinkIds : wanLinkId = None /\ links'[k] # None => links'[k].selected = None
      BY <1>6 DEF Inv, WizardInv, StoredInv
    <2>2. \A t \in Slots : asked'[t] # None =>
            /\ asked'[t].kind = "discover" =>
                 asked'[t].found \subseteq links'[asked'[t].link].stored
            /\ asked'[t].kind = "select" /\ asked'[t].done =>
                 asked'[t].index \in links'[asked'[t].link].stored
      <3> SUFFICES ASSUME NEW t \in Slots, asked'[t] # None, asked'[t].kind # "create"
                   PROVE  /\ asked'[t].kind = "discover" =>
                               asked'[t].found \subseteq links'[asked'[t].link].stored
                          /\ asked'[t].kind = "select" /\ asked'[t].done =>
                               asked'[t].index \in links'[asked'[t].link].stored
        OBVIOUS
      <3>1. asked'[t] = asked[t]
        BY <1>9
      <3>2. asked[t].link \in LinkIds /\ asked[t].link # None
        BY <3>1, RequestType, RequestKinds, NoneIsNoId DEF Inv
      <3>3. links'[asked[t].link] = links[asked[t].link]
        BY <1>13, <1>14, <3>1, <3>2
      <3>. QED
        BY <3>1, <3>3 DEF Inv, WizardInv, StoredInv
    <2>3. step = 5 /\ snmpEnabled => review # None /\ review \in links'[wanLinkId].stored
      <3>1. step = 5 => wanLinkId # None
        BY DEF Inv, WizardInv, LinksInv
      <3>. QED
        BY <3>1, <1>13, <1>14 DEF Inv, WizardInv, StoredInv
    <2>. QED
      BY <1>10, <1>11, <1>13, <1>14, <2>1, <2>2, <2>3 DEF Inv, WizardInv, StoredInv
  <1>19. SelectionInv'
    <2> SUFFICES ASSUME ~repeated, ~muddled PROVE SelectionInv'
      BY <1>11 DEF SelectionInv
    <2>1. \A t \in Slots : Selecting(t)' => asked'[t] = asked[t] /\ wanLinkId # None
      <3> SUFFICES ASSUME NEW t \in Slots, Selecting(t)'
                   PROVE  asked'[t] = asked[t] /\ wanLinkId # None
        OBVIOUS
      <3>1. asked'[t] = asked[t]
        BY <1>9 DEF Selecting
      <3>2. asked[t].link = wanLinkId /\ asked[t].link \in LinkIds
        BY <3>1, RequestType, RequestKinds DEF Inv, WizardInv, OnceInv, Selecting, Creating
      <3>. QED
        BY <3>1, <3>2, NoneIsNoId
    <2>. QED
      BY <1>11, <1>13, <1>14, <1>16, <2>1 DEF Inv, WizardInv, SelectionInv
  <1>. QED
    BY <1>10, <1>12, <1>15, <1>17, <1>18, <1>19 DEF Inv, WizardInv

LEMMA ServeDiscoveryKeeps ==
  ASSUME Inv, NEW s \in Slots, ServeDiscovery(s)
  PROVE  Inv'
  <1> DEFINE q == asked[s]
             l == asked[s].link
  <1>1. q # None /\ q.kind = "discover" /\ q \in Discoveries /\ links[l].snmp /\ ~q.done
    BY RequestType DEF ServeDiscovery, Inv
  <1>2. l \in LinkIds /\ l # None
    BY <1>1, RequestKinds, NoneIsNoId
  <1>3. links[l] # None /\ links[l] \in Links
    BY <1>1, <1>2 DEF Inv, WizardInv, LinksInv, TypeOK
  <1>4. PICK found \in SUBSET Indices :
          /\ links' = [links EXCEPT ![l].stored = @ \cup found]
          /\ asked' = [asked EXCEPT ![s].found = found, ![s].done = TRUE]
    BY DEF ServeDiscovery
  <1> DEFINE row == [links[l] EXCEPT !.stored = @ \cup found]
             r == [q EXCEPT !.found = found, !.done = TRUE]
  <1>5. UNCHANGED <<picker, review, form, history>>
    BY DEF ServeDiscovery
  <1>6. /\ row \in Links /\ row.snmp = links[l].snmp /\ row.selected = links[l].selected
        /\ row.stored = links[l].stored \cup found
    BY <1>3 DEF Links
  <1>7. links' = [links EXCEPT ![l] = row] /\ links \in [LinkIds -> Links \cup {None}]
    BY <1>4 DEF Inv, TypeOK
  <1>8. /\ links' \in [LinkIds -> Links \cup {None}]
        /\ links'[l] = row /\ row # None
        /\ \A k \in LinkIds \ {l} : links'[k] = links[k]
    BY <1>2, <1>6, <1>7, NoneIsNoId
  <1>9. /\ r \in Discoveries /\ r.kind = "discover" /\ r.link = l /\ r.found = found
    BY <1>1 DEF Discoveries
  <1>10. asked' = [asked EXCEPT ![s] = r]
    BY <1>4
  <1>11. /\ asked' \in [Slots -> Creations \cup Discoveries \cup Selections \cup {None}]
         /\ \A t \in Slots \ {s} : asked'[t] = asked[t]
         /\ asked'[s] # None /\ asked'[s].kind = "discover" /\ asked'[s].link = l
         /\ asked'[s].found = found
    BY <1>9, <1>10, AskedFor DEF Inv
  <1>12. PickerInv' /\ step' = step /\ branch' = branch
    BY <1>5, PickerStutters DEF Inv, picker, choice
  <1>13. /\ UNCHANGED <<review, snmpEnabled, wanLinkId, selectedIfIndex, discovered, listed>>
         /\ UNCHANGED <<repeated, muddled>>
    BY <1>5 DEF form, history
  <1>14. TypeOK'
    BY <1>8, <1>11, <1>12, <1>13 DEF Inv, TypeOK, PickerInv
  <1>15. \A k \in LinkIds : /\ links'[k] # None <=> links[k] # None
                            /\ links'[k].selected = links[k].selected
                            /\ links[k].stored \subseteq links'[k].stored
    BY <1>3, <1>6, <1>8
  <1>16. \A t \in Slots : /\ asked'[t] # None <=> asked[t] # None
                          /\ asked'[t].kind = asked[t].kind
                          /\ asked'[t].link = asked[t].link
                          /\ Creating(t)' <=> Creating(t)
                          /\ Selecting(t)' <=> Selecting(t)
                          /\ t # s => asked'[t] = asked[t]
    BY <1>1, <1>11 DEF Creating, Selecting
  <1>17. /\ wanLinkId # None => wanLinkId \in LinkIds
         /\ \A t \in Slots : asked[t] # None /\ asked[t].link # None => asked[t].link \in LinkIds
         /\ \A t \in Slots : asked[t] # None /\ asked[t].kind # "create" =>
              asked[t].link \in LinkIds /\ asked[t].link # None
    BY RequestType, RequestKinds, NoneIsNoId DEF Inv, TypeOK
  <1>18. LinksInv'
    <2>1. \A k \in LinkIds : links'[k] # None /\ links'[k].stored # {} => links'[k].snmp
      BY <1>1, <1>6, <1>8 DEF Inv, WizardInv, LinksInv
    <2>. QED
      BY <1>12, <1>13, <1>15, <1>16, <1>17, <2>1 DEF Inv, WizardInv, LinksInv
  <1>19. OnceInv'
    <2>1. \A t \in Slots : Creating(t) => asked'[t] = asked[t]
      BY <1>1, <1>16 DEF Creating
    <2>. QED
      BY <1>13, <1>15, <1>16, <2>1 DEF Inv, WizardInv, OnceInv
  <1>20. StoredInv'
    <2> SUFFICES ASSUME ~repeated PROVE StoredInv'
      BY <1>13 DEF StoredInv
    <2>1. \A t \in Slots : asked'[t] # None =>
            /\ asked'[t].kind = "discover" =>
                 asked'[t].found \subseteq links'[asked'[t].link].stored
            /\ asked'[t].kind = "select" /\ asked'[t].done =>
                 asked'[t].index \in links'[asked'[t].link].stored
      <3> SUFFICES ASSUME NEW t \in Slots, asked'[t] # None, asked'[t].kind # "create"
                   PROVE  /\ asked'[t].kind = "discover" =>
                               asked'[t].found \subseteq links'[asked'[t].link].stored
                          /\ asked'[t].kind = "select" /\ asked'[t].done =>
                               asked'[t].index \in links'[asked'[t].link].stored
        OBVIOUS
      <3>1. CASE t = s
        BY <1>6, <1>8, <1>11, <3>1
      <3>2. CASE t # s
        BY <1>15, <1>16, <1>17, <3>2 DEF Inv, WizardInv, StoredInv
      <3>. QED
        BY <3>1, <3>2
    <2>2. step = 5 /\ snmpEnabled => review # None /\ review \in links'[wanLinkId].stored
      <3>1. step = 5 => wanLinkId # None
        BY DEF Inv, WizardInv, LinksInv
      <3>. QED
        BY <3>1, <1>15, <1>17 DEF Inv, WizardInv, StoredInv
    <2>. QED
      BY <1>12, <1>13, <1>15, <1>17, <2>1, <2>2 DEF Inv, WizardInv, StoredInv
  <1>21. SelectionInv'
    <2>1. \A t \in Slots : Selecting(t) => asked'[t] = asked[t]
      BY <1>1, <1>16 DEF Selecting
    <2>2. ~repeated => \A t \in Slots : Selecting(t) => wanLinkId \in LinkIds
      BY <1>17 DEF Inv, WizardInv, OnceInv, Selecting, Creating
    <2>. QED
      BY <1>13, <1>15, <1>16, <1>17, <2>1, <2>2 DEF Inv, WizardInv, SelectionInv
  <1>. QED
    BY <1>12, <1>14, <1>18, <1>19, <1>20, <1>21 DEF Inv, WizardInv

LEMMA ServeSelectionKeeps ==
  ASSUME Inv, NEW s \in Slots, ServeSelection(s)
  PROVE  Inv'
  <1> DEFINE q == asked[s]
             l == asked[s].link
             row == [links[l] EXCEPT !.selected = q.index]
             r == [q EXCEPT !.done = TRUE]
  <1>1. /\ q # None /\ q.kind = "select" /\ q \in Selections /\ ~q.done
        /\ q.index \in links[l].stored
    BY RequestType DEF ServeSelection, Inv
  <1>2. l \in LinkIds /\ l # None /\ q.index \in Indices
    BY <1>1, RequestKinds, NoneIsNoId
  <1>3. links[l] # None /\ links[l] \in Links
    BY <1>1, <1>2 DEF Inv, WizardInv, LinksInv, TypeOK
  <1>4. /\ links' = [links EXCEPT ![l].selected = q.index]
        /\ asked' = [asked EXCEPT ![s].done = TRUE]
        /\ UNCHANGED <<picker, review, form, history>>
    BY DEF ServeSelection
  <1>5. /\ row \in Links /\ row.snmp = links[l].snmp /\ row.selected = q.index
        /\ row.stored = links[l].stored
    BY <1>2, <1>3 DEF Links
  <1>6. links' = [links EXCEPT ![l] = row] /\ links \in [LinkIds -> Links \cup {None}]
    BY <1>4 DEF Inv, TypeOK
  <1>7. /\ links' \in [LinkIds -> Links \cup {None}]
        /\ links'[l] = row /\ row # None
        /\ \A k \in LinkIds \ {l} : links'[k] = links[k]
    BY <1>2, <1>5, <1>6, NoneIsNoId
  <1>8. r \in Selections /\ r.kind = "select" /\ r.link = l /\ r.index = q.index /\ r.done
    BY <1>1 DEF Selections
  <1>9. asked' = [asked EXCEPT ![s] = r]
    BY <1>4
  <1>10. /\ asked' \in [Slots -> Creations \cup Discoveries \cup Selections \cup {None}]
         /\ \A t \in Slots \ {s} : asked'[t] = asked[t]
         /\ asked'[s] # None /\ asked'[s].kind = "select" /\ asked'[s].link = l
         /\ asked'[s].index = q.index /\ asked'[s].done
    BY <1>8, <1>9, AskedFor DEF Inv
  <1>11. PickerInv' /\ step' = step /\ branch' = branch
    BY <1>4, PickerStutters DEF Inv, picker, choice
  <1>12. /\ UNCHANGED <<review, snmpEnabled, wanLinkId, selectedIfIndex, discovered, listed>>
         /\ UNCHANGED <<repeated, muddled>>
    BY <1>4 DEF form, history
  <1>13. TypeOK'
    BY <1>7, <1>10, <1>11, <1>12 DEF Inv, TypeOK, PickerInv
  <1>14. \A k \in LinkIds : /\ links'[k] # None <=> links[k] # None
                            /\ links'[k].snmp = links[k].snmp
                            /\ links'[k].stored = links[k].stored
    BY <1>3, <1>5, <1>7
  <1>15. \A t \in Slots : /\ asked'[t] # None <=> asked[t] # None
                          /\ asked'[t].kind = asked[t].kind
                          /\ asked'[t].link = asked[t].link
                          /\ Creating(t)' <=> Creating(t)
                          /\ Selecting(t)' <=> Selecting(t)
                          /\ t # s => asked'[t] = asked[t]
    BY <1>1, <1>10 DEF Creating, Selecting
  <1>16. /\ wanLinkId # None => wanLinkId \in LinkIds
         /\ \A t \in Slots : asked[t] # None /\ asked[t].link # None => asked[t].link \in LinkIds
         /\ \A t \in Slots : asked[t] # None /\ asked[t].kind # "create" =>
              asked[t].link \in LinkIds /\ asked[t].link # None
    BY RequestType, RequestKinds, NoneIsNoId DEF Inv, TypeOK
  <1>17. ~repeated => l = wanLinkId /\ wanLinkId # None
    BY <1>1, <1>2 DEF Inv, WizardInv, OnceInv, Creating
  <1>18. LinksInv'
    BY <1>11, <1>12, <1>14, <1>15, <1>16 DEF Inv, WizardInv, LinksInv
  <1>19. OnceInv'
    <2>1. \A t \in Slots : Creating(t) => asked'[t] = asked[t]
      BY <1>1, <1>15 DEF Creating
    <2>. QED
      BY <1>12, <1>14, <1>15, <2>1 DEF Inv, WizardInv, OnceInv
  <1>20. StoredInv'
    <2> SUFFICES ASSUME ~repeated PROVE StoredInv'
      BY <1>12 DEF StoredInv
    <2>1. \A t \in Slots : asked'[t] # None =>
            /\ asked'[t].kind = "discover" =>
                 asked'[t].found \subseteq links'[asked'[t].link].stored
            /\ asked'[t].kind = "select" /\ asked'[t].done =>
                 asked'[t].index \in links'[asked'[t].link].stored
      <3> SUFFICES ASSUME NEW t \in Slots, asked'[t] # None, asked'[t].kind # "create"
                   PROVE  /\ asked'[t].kind = "discover" =>
                               asked'[t].found \subseteq links'[asked'[t].link].stored
                          /\ asked'[t].kind = "select" /\ asked'[t].done =>
                               asked'[t].index \in links'[asked'[t].link].stored
        OBVIOUS
      <3>1. CASE t = s
        BY <1>1, <1>5, <1>7, <1>10, <3>1
      <3>2. CASE t # s
        BY <1>14, <1>15, <1>16, <3>2 DEF Inv, WizardInv, StoredInv
      <3>. QED
        BY <3>1, <3>2
    <2>2. step = 5 /\ snmpEnabled => review # None /\ review \in links'[wanLinkId].stored
      <3>1. step = 5 => wanLinkId # None
        BY DEF Inv, WizardInv, LinksInv
      <3>. QED
        BY <3>1, <1>14, <1>16 DEF Inv, WizardInv, StoredInv
    <2>. QED
      BY <1>11, <1>12, <1>14, <1>16, <1>17, <2>1, <2>2 DEF Inv, WizardInv, StoredInv
  <1>21. SelectionInv'
    <2> SUFFICES ASSUME ~repeated, ~muddled PROVE SelectionInv'
      BY <1>12 DEF SelectionInv
    <2>1. \A t \in Slots : Selecting(t) => t = s
      BY <1>1, <1>12 DEF Inv, WizardInv, SelectionInv, Selecting
    <2>2. Selecting(s)' /\ asked'[s].done /\ links'[wanLinkId].selected = asked'[s].index
      BY <1>5, <1>7, <1>10, <1>17 DEF Selecting
    <2>. QED
      BY <1>12, <1>15, <2>1, <2>2 DEF SelectionInv
  <1>. QED
    BY <1>11, <1>13, <1>18, <1>19, <1>20, <1>21 DEF Inv, WizardInv

--------------------------------------------------------------------------------
(* The answers: the request ends and the page shows what it says.               *)
LEMMA AnswerCreationKeeps ==
  ASSUME Inv, NEW s \in Slots, AnswerCreation(s)
  PROVE  Inv'
  <1> DEFINE q == asked[s]
  <1>1. q # None /\ q.kind = "create" /\ q.link # None /\ q \in Creations
    BY RequestType DEF AnswerCreation, Inv
  <1>2. q.link \in LinkIds /\ links[q.link] # None /\ q.snmp \in BOOLEAN
    BY <1>1, RequestKinds DEF Inv, WizardInv, LinksInv
  <1>3. /\ wanLinkId' = q.link
        /\ Show(AfterCreation(q.snmp))
        /\ asked' = [asked EXCEPT ![s] = None]
        /\ UNCHANGED <<snmpEnabled, selectedIfIndex, discovered, listed, links>>
        /\ UNCHANGED <<repeated, muddled>>
    BY DEF AnswerCreation, history
  <1>4. /\ asked' \in [Slots -> Creations \cup Discoveries \cup Selections \cup {None}]
        /\ \A t \in Slots \ {s} : asked'[t] = asked[t]
        /\ asked'[s] = None
    BY <1>3, Ended DEF Inv
  <1>5. /\ AfterCreation(q.snmp) \in 1..5
        /\ AfterCreation(q.snmp) = 5 => ~q.snmp
    BY DEF AfterCreation
  <1>6. step' = AfterCreation(q.snmp)
    BY <1>3 DEF Show
  <1>7. PickerInv'
    BY <1>3, <1>5, ShowKeeps DEF Inv, Show
  <1>8. TypeOK'
    BY <1>2, <1>3, <1>4, <1>7 DEF Show, Inv, TypeOK, PickerInv
  <1>9. LinksInv'
    BY <1>1, <1>2, <1>3, <1>4 DEF Inv, WizardInv, LinksInv
  <1>10. ASSUME ~repeated
         PROVE  /\ wanLinkId = None /\ q.snmp = snmpEnabled
                /\ \A t \in Slots \ {s} : asked[t] = None
                /\ \A k \in LinkIds : links[k] # None => k = q.link
    <2>1. wanLinkId = None /\ q.snmp = snmpEnabled /\ Creating(s)
      BY <1>1, <1>10 DEF Inv, WizardInv, OnceInv, Creating
    <2>2. \A t \in Slots : Creating(t) => t = s
      BY <1>10, <2>1 DEF Inv, WizardInv, OnceInv
    <2>3. ASSUME NEW t \in Slots \ {s}, asked[t] # None PROVE FALSE
      <3>1. ~Creating(t) /\ asked[t].link = None
        BY <1>10, <2>1, <2>2, <2>3 DEF Inv, WizardInv, OnceInv
      <3>. QED
        BY <2>3, <3>1, RequestType, RequestKinds, NoneIsNoId DEF Inv, Creating
    <2>4. \A k \in LinkIds : links[k] # None => k = q.link
      BY <1>10, <2>1, <2>2, NoneIsNoId DEF Inv, WizardInv, OnceInv
    <2>. QED
      BY <2>1, <2>3, <2>4
  <1>11. OnceInv'
    BY <1>3, <1>4, <1>10 DEF OnceInv, Creating
  <1>12. StoredInv'
    BY <1>1, <1>2, <1>3, <1>4, <1>5, <1>6, <1>10 DEF Inv, WizardInv, StoredInv
  <1>13. SelectionInv'
    BY <1>2, <1>3, <1>4, <1>10 DEF Inv, WizardInv, StoredInv, SelectionInv, Selecting
  <1>. QED
    BY <1>7, <1>8, <1>9, <1>11, <1>12, <1>13 DEF Inv, WizardInv

LEMMA AnswerDiscoveryKeeps ==
  ASSUME Inv, NEW s \in Slots, AnswerDiscovery(s)
  PROVE  Inv'
  <1> DEFINE q == asked[s]
  <1>1. q # None /\ q.kind = "discover" /\ q \in Discoveries
    BY RequestType DEF AnswerDiscovery, Inv
  <1>2. q.found \subseteq Indices
    BY <1>1, RequestKinds
  <1>3. /\ discovered' = q.found /\ listed' = TRUE
        /\ asked' = [asked EXCEPT ![s] = None]
        /\ UNCHANGED <<picker, review, snmpEnabled, wanLinkId, selectedIfIndex, links>>
        /\ UNCHANGED <<repeated, muddled>>
    BY DEF AnswerDiscovery, history
  <1>4. /\ asked' \in [Slots -> Creations \cup Discoveries \cup Selections \cup {None}]
        /\ \A t \in Slots \ {s} : asked'[t] = asked[t]
        /\ asked'[s] = None
    BY <1>3, Ended DEF Inv
  <1>5. PickerInv' /\ step' = step /\ branch' = branch
    BY <1>3, PickerStutters DEF Inv, picker, choice
  <1>6. TypeOK'
    BY <1>2, <1>3, <1>4, <1>5 DEF Inv, TypeOK, PickerInv
  <1>7. LinksInv'
    BY <1>3, <1>4, <1>5 DEF Inv, WizardInv, LinksInv
  <1>8. OnceInv'
    BY <1>1, <1>3, <1>4 DEF Inv, WizardInv, OnceInv, Creating
  <1>9. StoredInv'
    <2> SUFFICES ASSUME ~repeated PROVE StoredInv'
      BY <1>3 DEF StoredInv
    <2>1. q.link = wanLinkId /\ wanLinkId # None
      BY <1>1, RequestKinds, NoneIsNoId DEF Inv, WizardInv, OnceInv, Creating
    <2>2. q.found \subseteq links[wanLinkId].stored
      BY <1>1, <2>1 DEF Inv, WizardInv, StoredInv
    <2>. QED
      BY <1>3, <1>4, <1>5, <2>1, <2>2 DEF Inv, WizardInv, StoredInv
  <1>10. SelectionInv'
    BY <1>1, <1>3, <1>4 DEF Inv, WizardInv, SelectionInv, Selecting
  <1>. QED
    BY <1>5, <1>6, <1>7, <1>8, <1>9, <1>10 DEF Inv, WizardInv

LEMMA AnswerSelectionKeeps ==
  ASSUME Inv, NEW s \in Slots, AnswerSelection(s)
  PROVE  Inv'
  <1> DEFINE q == asked[s]
  <1>1. q # None /\ q.kind = "select" /\ q \in Selections /\ q.done
    BY RequestType DEF AnswerSelection, Inv
  <1>2. q.index \in Indices /\ q.index # None
    BY <1>1, RequestKinds, NoneIsNoId
  <1>3. /\ selectedIfIndex' = q.index /\ listed' = TRUE
        /\ asked' = [asked EXCEPT ![s] = None]
        /\ UNCHANGED <<picker, review, snmpEnabled, wanLinkId, discovered, links>>
        /\ UNCHANGED <<repeated, muddled>>
    BY DEF AnswerSelection, history
  <1>4. /\ asked' \in [Slots -> Creations \cup Discoveries \cup Selections \cup {None}]
        /\ \A t \in Slots \ {s} : asked'[t] = asked[t]
        /\ asked'[s] = None
    BY <1>3, Ended DEF Inv
  <1>5. PickerInv' /\ step' = step /\ branch' = branch
    BY <1>3, PickerStutters DEF Inv, picker, choice
  <1>6. TypeOK'
    BY <1>2, <1>3, <1>4, <1>5 DEF Inv, TypeOK, PickerInv
  <1>7. LinksInv'
    BY <1>3, <1>4, <1>5 DEF Inv, WizardInv, LinksInv
  <1>8. OnceInv'
    BY <1>1, <1>3, <1>4 DEF Inv, WizardInv, OnceInv, Creating
  <1>9. ~repeated => q.link = wanLinkId /\ wanLinkId # None
    BY <1>1, RequestKinds, NoneIsNoId DEF Inv, WizardInv, OnceInv, Creating
  <1>10. StoredInv'
    <2> SUFFICES ASSUME ~repeated PROVE StoredInv'
      BY <1>3 DEF StoredInv
    <2>1. q.index \in links[wanLinkId].stored
      BY <1>1, <1>9 DEF Inv, WizardInv, StoredInv
    <2>. QED
      BY <1>2, <1>3, <1>4, <1>5, <1>9, <2>1 DEF Inv, WizardInv, StoredInv
  <1>11. SelectionInv'
    <2> SUFFICES ASSUME ~repeated, ~muddled PROVE SelectionInv'
      BY <1>3 DEF SelectionInv
    <2>1. \A t \in Slots : Selecting(t) => t = s
      BY <1>1 DEF Inv, WizardInv, SelectionInv, Selecting
    <2>2. links[wanLinkId].selected = q.index
      BY <1>1 DEF Inv, WizardInv, SelectionInv, Selecting
    <2>. QED
      BY <1>3, <1>4, <2>1, <2>2 DEF SelectionInv, Selecting
  <1>. QED
    BY <1>5, <1>6, <1>7, <1>8, <1>10, <1>11 DEF Inv, WizardInv

LEMMA FailsKeeps ==
  ASSUME Inv, NEW s \in Slots, Fails(s)
  PROVE  Inv'
  <1> DEFINE q == asked[s]
  <1>1. /\ q # None
        /\ repeated' = (repeated \/ (q.kind = "create" /\ q.link # None))
        /\ muddled'  = (muddled \/ (q.kind = "select" /\ q.done))
        /\ listed' = (listed /\ q.kind # "discover")
        /\ asked' = [asked EXCEPT ![s] = None]
        /\ UNCHANGED <<picker, review, snmpEnabled, wanLinkId, selectedIfIndex, discovered, links>>
    BY DEF Fails
  <1>2. /\ asked' \in [Slots -> Creations \cup Discoveries \cup Selections \cup {None}]
        /\ \A t \in Slots \ {s} : asked'[t] = asked[t]
        /\ asked'[s] = None
    BY <1>1, Ended DEF Inv
  <1>3. PickerInv' /\ step' = step /\ branch' = branch
    BY <1>1, PickerStutters DEF Inv, picker, choice
  <1>4. TypeOK'
    <2>1. repeated' \in BOOLEAN /\ muddled' \in BOOLEAN /\ listed' \in BOOLEAN
      BY <1>1
    <2>. QED
      BY <1>1, <1>2, <1>3, <2>1 DEF Inv, TypeOK, PickerInv
  <1>5. LinksInv'
    BY <1>1, <1>2, <1>3 DEF Inv, WizardInv, LinksInv
  <1>6. ~repeated' => ~repeated /\ (Creating(s) => q.link = None)
    BY <1>1 DEF Creating
  <1>7. ~muddled' => ~muddled /\ (Selecting(s) => ~q.done)
    BY <1>1 DEF Selecting
  <1>8. OnceInv'
    <2> SUFFICES ASSUME ~repeated' PROVE OnceInv'
      BY DEF OnceInv
    <2>1. \A l \in LinkIds : links[l] # None =>
            l = wanLinkId \/ \E t \in Slots : Creating(t)' /\ asked'[t].link = l
      <3> SUFFICES ASSUME NEW l \in LinkIds, links[l] # None, l # wanLinkId
                   PROVE  \E t \in Slots : Creating(t)' /\ asked'[t].link = l
        OBVIOUS
      <3>1. PICK t \in Slots : Creating(t) /\ asked[t].link = l
        BY <1>6 DEF Inv, WizardInv, OnceInv
      <3>2. t # s
        BY <1>6, <3>1, NoneIsNoId
      <3>. QED
        BY <1>2, <3>1, <3>2 DEF Creating
    <2>. QED
      BY <1>1, <1>2, <1>6, <2>1 DEF Inv, WizardInv, OnceInv, Creating
  <1>9. StoredInv'
    BY <1>1, <1>2, <1>3, <1>6 DEF Inv, WizardInv, StoredInv
  <1>10. SelectionInv'
    <2> SUFFICES ASSUME ~repeated', ~muddled' PROVE SelectionInv'
      BY DEF SelectionInv
    <2>1. ~repeated /\ ~muddled /\ (Selecting(s) => ~q.done)
      BY <1>6, <1>7
    <2>2. \A t \in Slots : Selecting(t)' => Selecting(t) /\ asked'[t] = asked[t]
      BY <1>2 DEF Selecting
    <2>3. \A t \in Slots : Selecting(t) /\ asked[t].done => Selecting(t)' /\ asked'[t] = asked[t]
      BY <1>2, <2>1 DEF Selecting
    <2>. QED
      BY <1>1, <2>1, <2>2, <2>3 DEF Inv, WizardInv, SelectionInv
  <1>. QED
    BY <1>3, <1>4, <1>5, <1>8, <1>9, <1>10 DEF Inv, WizardInv

--------------------------------------------------------------------------------
LEMMA Preserved ==
  ASSUME Inv, [Next]_vars
  PROVE  Inv'
  <1>1. CASE UNCHANGED vars
    <2>1. UNCHANGED picker /\ UNCHANGED <<review, form, server, history>>
      BY <1>1 DEF vars
    <2>2. PickerInv' /\ step' = step /\ branch' = branch
      BY <2>1, PickerStutters DEF Inv, picker, choice
    <2>3. TypeOK'
      BY <2>1, <2>2 DEF Inv, TypeOK, PickerInv, form, server, history
    <2>4. WizardInv'
      BY <2>1, <2>2 DEF Inv, form, server, history, WizardInv, LinksInv, OnceInv, StoredInv,
                        SelectionInv, Creating, Selecting
    <2>. QED
      BY <2>2, <2>3, <2>4 DEF Inv
  <1>2. CASE PickerNext /\ UNCHANGED <<review, form, server, history>>
    BY <1>2, PickerKeeps
  <1>3. CASE PageNext
    BY <1>3, PagesTurn, Step3NextKeeps, DiscoverKeeps, SelectKeeps DEF PageNext
  <1>4. ASSUME NEW s \in Slots, RequestNext(s) PROVE Inv'
    BY <1>4, ServeCreationKeeps, ServeDiscoveryKeeps, ServeSelectionKeeps,
       AnswerCreationKeeps, AnswerDiscoveryKeeps, AnswerSelectionKeeps, FailsKeeps
       DEF RequestNext
  <1>. QED
    BY <1>1, <1>2, <1>3, <1>4 DEF Next

LEMMA Invariance == Spec => []Inv
  BY Initially, Preserved, PTL DEF Spec

(* The page and the server hold what they can hold, and no request is sent for  *)
(* a link the page does not have.                                               *)
THEOREM TypeCorrect == Spec => []TypeOK
  <1>1. Inv => TypeOK
    BY DEF Inv
  <1>. QED
    BY <1>1, Invariance, PTL

(* Step 1: for a user who lets the page answer, the branch is under the customer *)
(* and in the city that are chosen.                                             *)
THEOREM BranchesAreOfTheChoice == Spec => []BranchIsOfTheChoice
  <1>1. Inv => BranchIsOfTheChoice
    BY DEF Inv, PickerInv, PatientInv, BranchIsOfTheChoice
  <1>. QED
    BY <1>1, Invariance, PTL

(* Step 1: with every answer in, the page shows the choice and its lists.       *)
THEOREM PagesShowTheChoice == Spec => []PageShowsTheChoice
  <1>1. Inv => PageShowsTheChoice
    BY DEF Inv, PickerInv, PatientInv, PageShowsTheChoice
  <1>. QED
    BY <1>1, Invariance, PTL

(* step3-next: one visit makes one link, unless a creation is asked for again   *)
(* before the page knows of the first.                                          *)
THEOREM OneLink == Spec => []OneLinkPerVisit
  <1>1. Inv => OneLinkPerVisit
    <2> SUFFICES ASSUME Inv, ~repeated, NEW k \in LinkIds, NEW l \in LinkIds,
                        links[k] # None, links[l] # None
                 PROVE  k = l
      BY DEF OneLinkPerVisit
    <2>1. CASE wanLinkId = None
      <3>1. PICK r \in Slots : Creating(r) /\ asked[r].link = k
        BY <2>1, NoneIsNoId DEF Inv, WizardInv, OnceInv
      <3>2. PICK t \in Slots : Creating(t) /\ asked[t].link = l
        BY <2>1, NoneIsNoId DEF Inv, WizardInv, OnceInv
      <3>. QED
        BY <3>1, <3>2 DEF Inv, WizardInv, OnceInv
    <2>2. CASE wanLinkId # None
      BY <2>2 DEF Inv, WizardInv, OnceInv
    <2>. QED
      BY <2>1, <2>2
  <1>. QED
    BY <1>1, Invariance, PTL

(* selectInterface: the interface shown is the one that is polled.              *)
THEOREM SelectionsAreStored == Spec => []SelectionShownIsStored
  <1>1. Inv => SelectionShownIsStored
    BY DEF Inv, WizardInv, SelectionInv, SelectionShownIsStored, InFlight, Selecting
  <1>. QED
    BY <1>1, Invariance, PTL

(* The review of a link with SNMP names an interface that was discovered.       *)
THEOREM ReviewsNameInterfaces == Spec => []ReviewNamesTheInterface
  <1>1. Inv => ReviewNamesTheInterface
    <2> SUFFICES ASSUME Inv, ~repeated, step = 5, snmpEnabled
                 PROVE  /\ review # None
                        /\ links[wanLinkId].snmp
                        /\ review \in links[wanLinkId].stored
      BY DEF ReviewNamesTheInterface
    <2>1. wanLinkId # None /\ wanLinkId \in LinkIds /\ links[wanLinkId] # None
      BY DEF Inv, TypeOK, WizardInv, LinksInv
    <2>2. review # None /\ review \in links[wanLinkId].stored
      BY <2>1 DEF Inv, WizardInv, StoredInv
    <2>. QED
      BY <2>1, <2>2 DEF Inv, WizardInv, LinksInv
  <1>. QED
    BY <1>1, Invariance, PTL

--------------------------------------------------------------------------------
(* The finding about StartsFromAShownBranch has one cause: a change of the      *)
(* suburb does not give up the branch, as changes of the customer and the city  *)
(* do.                                                                          *)
SuburbGivesUpBranch == suburb' # suburb => branch' = None

(* What a question in flight will leave shown: no branch, or the one created.   *)
Promise(q) ==
  /\ q.kind = "suburbs" => branch = None
  /\ q.kind = "branches" =>
       /\ q.created = None => branch = None
       /\ q.created # None =>
            q.created \in branches /\ (q.suburb # None => q.created.suburb = q.suburb)
  /\ q.kind = "create" => q.place.suburb = suburb

ShownInv ==
  ~hasty =>
    /\ branch # None => branchShown = branch
    /\ \A s \in Slots : question[s] # None => Promise(question[s])

(* With nothing else in flight, a question for the branches of the choice keeps *)
(* the invariant if it is about a branch just created, or there is none.        *)
LEMMA AskingKeepsShown ==
  ASSUME PickerInv, NEW s \in Slots, \A t \in Slots \ {s} : question[t] = None,
         NEW c \in Customers \cup {None}, NEW z \in Cities \cup {None},
         NEW u \in Suburbs \cup {None}, NEW created \in Places \cup {None},
         RefreshBranches(s, c, z, u, created),
         c = None \/ z = None \/ created = None => branch' = None,
         branch' # None => branch' = branch /\ branchShown = branch,
         created # None => created \in branches' /\ (u # None => created.suburb = u)
  PROVE  /\ branch' # None => branchShown' = branch'
         /\ \A t \in Slots : question'[t] # None => Promise(question[t])'
  <1>1. /\ \A t \in Slots \ {s} : question'[t] = None
        /\ c = None \/ z = None => question'[s] = None
        /\ c # None /\ z # None =>
             /\ question'[s] # None
             /\ question'[s] = [kind |-> "branches", customer |-> c, city |-> z,
                                suburb |-> u, created |-> created]
    BY Refreshed DEF PickerInv
  <1>2. branch' # None => branchShown' = branch'
    BY DEF RefreshBranches
  <1>3. question'[s] # None => Promise(question[s])'
    BY <1>1 DEF Promise
  <1>. QED
    BY <1>1, <1>2, <1>3

LEMMA ShownInvInductive ==
  ASSUME PickerInv, ShownInv, PickerNext, SuburbGivesUpBranch
  PROVE  ShownInv'
  <1> SUFFICES ASSUME ~hasty'
               PROVE  /\ branch' # None => branchShown' = branch'
                      /\ \A s \in Slots : question'[s] # None => Promise(question[s])'
    BY DEF ShownInv
  <1> DEFINE Goal == /\ branch' # None => branchShown' = branch'
                     /\ \A s \in Slots : question'[s] # None => Promise(question[s])'
  <1>0. /\ customer \in Customers \cup {None} /\ city \in Cities \cup {None}
        /\ suburb \in Suburbs \cup {None} /\ None \in Suburbs \cup {None}
        /\ None \in Places \cup {None}
    BY DEF PickerInv, PickerTypeOK
  <1>1. ASSUME NEW c \in Customers \cup {None}, SelectCustomer(c) PROVE Goal
    <2>1. PICK s \in Free : RefreshBranches(s, c, city, suburb, None)
      BY <1>1 DEF SelectCustomer
    <2>2. s \in Slots /\ (\A t \in Slots : question[t] = None) /\ branch' = None
      BY <1>1, <2>1 DEF SelectCustomer, Free, Busy
    <2>. QED
      BY <1>0, <2>1, <2>2, AskingKeepsShown
  <1>2. ASSUME NEW z \in Cities \cup {None}, SelectCity(z) PROVE Goal
    <2>1. branch' = None /\ \A t \in Slots : question[t] = None
      BY <1>2 DEF SelectCity, ChooseCity, Busy
    <2>2. PICK s \in Free :
            IF z = None THEN RefreshBranches(s, customer, z, None, None)
            ELSE question' = [question EXCEPT ![s] = [kind |-> "suburbs", city |-> z]]
      BY <1>2 DEF SelectCity
    <2>3. CASE z = None
      <3>1. s \in Slots /\ RefreshBranches(s, customer, z, None, None)
        BY <2>2, <2>3 DEF Free
      <3>. QED
        BY <1>0, <2>1, <3>1, AskingKeepsShown
    <2>4. CASE z # None
      <3>1. \A t \in Slots : question'[t] = None \/ question'[t].kind = "suburbs"
        BY <2>1, <2>2, <2>4 DEF PickerInv, PickerTypeOK
      <3>. QED
        BY <2>1, <3>1 DEF Promise
    <2>. QED
      BY <2>3, <2>4
  <1>3. ASSUME NEW u \in suburbList \cup {None}, SelectSuburb(u) PROVE Goal
    <2>1. ~hasty /\ ~Busy /\ branch' = branch /\ suburb' = u /\ u # suburbShown
      BY <1>3 DEF SelectSuburb
    <2>2. suburbShown = suburb
      BY <2>1 DEF PickerInv, PatientInv, PageShowsTheChoice
    <2>3. branch' = None
      BY <2>1, <2>2 DEF SuburbGivesUpBranch
    <2>4. PICK s \in Free : RefreshBranches(s, customer, city, u, None)
      BY <1>3 DEF SelectSuburb
    <2>5. s \in Slots /\ (\A t \in Slots : question[t] = None) /\ u \in Suburbs \cup {None}
      BY <2>1, <2>4 DEF Free, Busy, PickerInv, PickerTypeOK
    <2>. QED
      BY <1>0, <2>3, <2>4, <2>5, AskingKeepsShown
  <1>4. ASSUME NEW b \in branchList \cup {None}, SelectBranch(b) PROVE Goal
    BY <1>4 DEF SelectBranch, Busy
  <1>5. CASE NewBranch
    <2>1. ~hasty /\ (\A t \in Slots : question[t] = None) /\ UNCHANGED <<choice, lists>>
      BY <1>5 DEF NewBranch, Busy
    <2>2. PICK s \in Free :
            question' = [question EXCEPT ![s] =
              [kind |-> "create",
               place |-> [customer |-> customer, city |-> city, suburb |-> suburb]]]
      BY <1>5 DEF NewBranch
    <2>3. \A t \in Slots : question'[t] = None \/
            (question'[t].kind = "create" /\ question'[t].place.suburb = suburb)
      BY <2>1, <2>2 DEF PickerInv, PickerTypeOK
    <2>. QED
      BY <2>1, <2>3 DEF ShownInv, Promise, choice, lists
  <1>6. ASSUME NEW s \in Slots, AnswerSuburbs(s) PROVE Goal
    <2>1. ~hasty /\ question[s] # None /\ question[s].kind = "suburbs" /\ branch' = branch
      BY <1>6 DEF AnswerSuburbs, choice
    <2>2. branch' = None /\ \A t \in Slots \ {s} : question[t] = None
      BY <1>6, <2>1 DEF ShownInv, Promise, PickerInv, PatientInv
    <2>3. RefreshBranches(s, customer, city, None, None)
      BY <1>6 DEF AnswerSuburbs
    <2>. QED
      BY <1>0, <2>2, <2>3, AskingKeepsShown
  <1>7. ASSUME NEW s \in Slots, AnswerBranches(s) PROVE Goal
    <2> DEFINE q == question[s]
               found == Matching(q.customer, q.city, q.suburb)
    <2>1. ~hasty /\ q # None /\ q.kind = "branches"
      BY <1>7 DEF AnswerBranches
    <2>2. \A t \in Slots : question'[t] = None
      BY <1>7, <2>1 DEF AnswerBranches, PickerInv, PickerTypeOK, PatientInv
    <2>3. /\ branchShown' = IF q.created \in found THEN q.created ELSE None
          /\ branch' = IF q.created # None THEN q.created ELSE branch
      BY <1>7 DEF AnswerBranches
    <2>4. CASE q.created = None
      BY <2>1, <2>2, <2>3, <2>4 DEF ShownInv, Promise
    <2>5. CASE q.created # None
      <3>1. /\ q.created.customer = q.customer /\ q.created.city = q.city
        BY <2>1, <2>5 DEF PickerInv, PatientInv, Agrees
      <3>2. q.created \in branches /\ (q.suburb # None => q.created.suburb = q.suburb)
        BY <2>1, <2>5 DEF ShownInv, Promise
      <3>3. q.created \in found
        BY <3>1, <3>2 DEF Matching
      <3>. QED
        BY <2>2, <2>3, <2>5, <3>3
    <2>. QED
      BY <2>4, <2>5
  <1>8. ASSUME NEW s \in Slots, AnswerCreate(s) PROVE Goal
    <2> DEFINE p == question[s].place
    <2>1. /\ ~hasty /\ question[s] # None /\ question[s].kind = "create" /\ p \in Places
          /\ branches' = branches \cup {p}
          /\ branch' = IF customer = None \/ city = None THEN p ELSE branch
          /\ RefreshBranches(s, customer, city, suburb, p)
      BY <1>8 DEF AnswerCreate
    <2>2. p.suburb = suburb /\ p.customer = customer /\ p.city = city
      BY <2>1 DEF ShownInv, Promise, PickerInv, PatientInv, Agrees
    <2>3. customer # None /\ city # None /\ p # None
      BY <2>1, <2>2, PlacesAreNot DEF AnyPlace
    <2>4. \A t \in Slots \ {s} : question[t] = None
      BY <2>1 DEF PickerInv, PatientInv
    <2>5. branch' = branch /\ (branch # None => branchShown = branch)
      BY <2>1, <2>3 DEF ShownInv
    <2>. HIDE DEF p
    <2>. QED
      BY <1>0, <2>1, <2>2, <2>3, <2>4, <2>5, AskingKeepsShown
  <1>9. ASSUME NEW s \in Slots PROVE ~Lost(s)
    BY DEF Lost
  <1>10. ASSUME UNCHANGED <<choice, lists, question, branches, hasty>> PROVE Goal
    BY <1>10 DEF ShownInv, Promise, choice, lists
  <1>. QED
    BY <1>1, <1>2, <1>3, <1>4, <1>5, <1>6, <1>7, <1>8, <1>9, <1>10
       DEF PickerNext, Step1Next, Step2Back

(* The later steps and the requests leave step 1 alone, and none of them leads  *)
(* out of it.                                                                   *)
LEMMA LaterStepsKeepStepOne ==
  ASSUME PageNext \/ (\E s \in Slots : RequestNext(s)) \/ UNCHANGED vars
  PROVE  /\ UNCHANGED <<choice, lists, question, branches, hasty>>
         /\ ~(step = 1 /\ step' = 2)
  <1>1. ASSUME NEW n \in {1, 2, 3, 4, 5}, Show(n)
        PROVE  UNCHANGED <<choice, lists, question, branches, hasty>> /\ step' = n
    BY <1>1 DEF Show
  <1>2. ASSUME UNCHANGED picker
        PROVE  /\ UNCHANGED <<choice, lists, question, branches, hasty>>
               /\ ~(step = 1 /\ step' = 2)
    BY <1>2 DEF picker
  <1>3. CASE PageNext
    <2>1. ASSUME NEW snmp \in BOOLEAN, Step3Next(snmp)
          PROVE  /\ UNCHANGED <<choice, lists, question, branches, hasty>>
                 /\ ~(step = 1 /\ step' = 2)
      BY <2>1, <1>1, <1>2 DEF Step3Next, WaitForTheLink, AfterCreation
    <2>2. ASSUME Discover \/ (\E i \in Indices : SelectInterface(i))
          PROVE  UNCHANGED picker
      BY <2>2 DEF Discover, SelectInterface
    <2>3. ASSUME Step2Next \/ Step3Back \/ Step4Back \/ Step4Next \/ Step5Back
          PROVE  /\ UNCHANGED <<choice, lists, question, branches, hasty>>
                 /\ ~(step = 1 /\ step' = 2)
      BY <2>3, <1>1 DEF Step2Next, Step3Back, Step4Back, Step4Next, Step5Back
    <2>. QED
      BY <1>2, <1>3, <2>1, <2>2, <2>3 DEF PageNext
  <1>4. ASSUME NEW s \in Slots, RequestNext(s)
        PROVE  /\ UNCHANGED <<choice, lists, question, branches, hasty>>
               /\ ~(step = 1 /\ step' = 2)
    <2>1. CASE AnswerCreation(s)
      BY <2>1, <1>1 DEF AnswerCreation, AfterCreation
    <2>2. CASE ~AnswerCreation(s)
      BY <1>4, <2>2, <1>2 DEF RequestNext, ServeCreation, ServeDiscovery, ServeSelection,
                              AnswerDiscovery, AnswerSelection, Fails
    <2>. QED
      BY <2>1, <2>2
  <1>. QED
    BY <1>2, <1>3, <1>4 DEF vars

(* Step 1 is left with the branch that the page shows as selected, as           *)
(* onboarding.html:333 asks, if a change of the suburb gives up the branch: a   *)
(* line in the suburb's handler (onboarding.html:290) is all that is missing.   *)
THEOREM OnlyTheSuburbHidesTheBranch ==
  Spec /\ [][SuburbGivesUpBranch]_vars => StartsFromAShownBranch
  <1>1. Init => ShownInv
    BY DEF Init, PickerInit, ShownInv
  <1>2. Inv /\ ShownInv /\ [Next]_vars /\ [SuburbGivesUpBranch]_vars => ShownInv'
    <2> SUFFICES ASSUME Inv, ShownInv, [Next]_vars, [SuburbGivesUpBranch]_vars
                 PROVE  ShownInv'
      OBVIOUS
    <2>1. CASE PickerNext /\ SuburbGivesUpBranch
      BY <2>1, ShownInvInductive DEF Inv
    <2>2. CASE PageNext \/ (\E s \in Slots : RequestNext(s)) \/ UNCHANGED vars
      BY <2>2, LaterStepsKeepStepOne DEF ShownInv, Promise, choice, lists
    <2>. QED
      BY <2>1, <2>2 DEF Next
  <1>3. Inv /\ ShownInv /\ [Next]_vars =>
          [~hasty /\ step = 1 /\ step' = 2 => branchShown = branch]_picker
    <2> SUFFICES ASSUME Inv, ShownInv, [Next]_vars, ~hasty, step = 1, step' = 2
                 PROVE  branchShown = branch
      OBVIOUS
    <2>1. PickerNext
      BY LaterStepsKeepStepOne DEF Next
    <2>2. Step1Next
      BY <2>1 DEF PickerNext, SelectCustomer, SelectCity, SelectSuburb, SelectBranch, NewBranch,
                  Step2Back, AnswerSuburbs, AnswerBranches, AnswerCreate, Lost
    <2>. QED
      BY <2>2 DEF Step1Next, ShownInv
  <1>. QED
    BY <1>1, <1>2, <1>3, Invariance, PTL DEF Spec, StartsFromAShownBranch
================================================================================
