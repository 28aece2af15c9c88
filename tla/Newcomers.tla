----------------------------- MODULE Newcomers -----------------------------
(***************************************************************************)
(* What surrounds a purchase: how an update reaches the menu (Onboarding), *)
(* what the experiments show and count (Experiments), and the reminder of  *)
(* who has connected nothing (Reminders).  They share the process and no   *)
(* state, so that a behaviour of one says what a behaviour of all does: a  *)
(* behaviour here is one of the three, the others as they begin.           *)
(***************************************************************************)
EXTENDS Onboarding, Reminders, Experiments

VARIABLE focus

newcomerVars == <<focus, onboardingVars, reminderVars, experimentVars>>

One(S) == CHOOSE x \in S : TRUE

Init ==
    /\ OnboardingInit /\ RemindersInit /\ ExperimentsInit
    /\ focus \in {"updates", "reminders", "experiments"}
    /\ focus # "updates" => house = One(Houses) /\ billing = One([People -> house.knows]) /\ joined = {}
    /\ focus # "experiments" => published = One(Publications)

Next ==
    \/ focus = "updates" /\ OnboardingNext /\ UNCHANGED <<focus, reminderVars, experimentVars>>
    \/ focus = "reminders" /\ RemindersNext /\ UNCHANGED <<focus, onboardingVars, experimentVars>>
    \/ focus = "experiments" /\ ExperimentsNext /\ UNCHANGED <<focus, onboardingVars, reminderVars>>

Spec == Init /\ [][Next]_newcomerVars

\* The types of the three.
TypeOK == OnboardingTypeOK /\ RemindersTypeOK /\ ExperimentsTypeOK
=============================================================================
