------------------------ MODULE LocatorTeardownProofs ------------------------
(***************************************************************************)
(* Proofs about LocatorTeardown, for any services and any bounds: a locator*)
(* that lives and ends takes only the steps of ServiceLocator, and so keeps *)
(* to the end what is promised of it.                                      *)
(***************************************************************************)
EXTENDS LocatorTeardown, ServiceLocatorProofs, TLAPS

(* Every step of the locator's life is one of ServiceLocator, or changes   *)
(* nothing that module sees.                                               *)
LEMMA LifeStep == [LifeNext]_lifeVars => [Next]_vars
<1> SUFFICES ASSUME [LifeNext]_lifeVars PROVE [Next]_vars
  OBVIOUS
<1>1. ASSUME NEW t \in Types,
             \/ ApplicationCalls(t) \/ ConnectReturns(t) \/ LinkEnds(t) \/ DataComes(t)
             \/ RestartComes(t) \/ LocatedCallbackComes(t) \/ Answer(t)
      PROVE  Next
  BY <1>1 DEF ApplicationCalls, ConnectReturns, LinkEnds, DataComes, RestartComes,
              LocatedCallbackComes, Answer, Next, Io
<1>2. CASE CallbackComes
  BY <1>2 DEF CallbackComes, Next
<1>3. CASE Teardown
  BY <1>3 DEF Teardown, Destroy, MemberGone, ServiceGoes
<1>4. CASE UNCHANGED lifeVars
  BY <1>4 DEF lifeVars
<1>5. QED
  BY <1>1, <1>2, <1>3, <1>4 DEF LifeNext

(* From its construction to its end a locator behaves as ServiceLocator    *)
(* says: what is proved of that module holds during the destruction too.   *)
THEOREM LifeIsLocator == LifeSpec => Spec
<1>1. LifeInit => Init
  BY DEF LifeInit
<1>2. QED
  BY <1>1, LifeStep, PTL DEF LifeSpec, Spec

-----------------------------------------------------------------------------
(* OneConnection holds to the end of the destruction.                      *)
THEOREM NeverTwoToTheEnd == LifeSpec => []OneConnection
  BY LifeIsLocator, NeverTwoConnections

(* CallsAsPromised holds to the end of the destruction: for any services   *)
(* and any bounds, a locator that is destroyed at any moment has made its  *)
(* calls as CallContract says, as long as servers answer nothing but       *)
(* requests.                                                               *)
THEOREM ContractToTheEnd ==
    ASSUME AnswersUpdates = FALSE
    PROVE  LifeSpec => CallsAsPromised
  BY LifeIsLocator, ImplementsCallContract
=============================================================================
