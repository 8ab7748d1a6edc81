------------------------ MODULE MCNotificationOutbox ------------------------
(***************************************************************************)
(* Small instances of NotificationOutbox for TLC: one user, one job of each *)
(* kind that matters to the run, two worker processes.                     *)
(***************************************************************************)
EXTENDS NotificationOutbox, TLC

CONSTANTS test, price, preset, broken, ann

MCOwner == [j \in Jobs |-> ann]

MCKind == [j \in Jobs |->
             CASE j = test -> "telegram_test"
               [] j = price -> "telegram_price_alert"
               [] OTHER -> "telegram_preset_signal"]

\* Workers with the same token are interchangeable; used by safety runs only.
MCSymmetry == Permutations(Workers)

=============================================================================
