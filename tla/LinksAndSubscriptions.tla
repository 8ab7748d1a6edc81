------------------------ MODULE LinksAndSubscriptions ------------------------
(***************************************************************************)
(* What a user may link and subscribe to, side by side: the Telegram       *)
(* destinations of all users (TelegramLinking) and the signal              *)
(* subscriptions of one user (SignalSubscriptions).  They share no state   *)
(* here; each has the requests, locks and faults of its own.               *)
(***************************************************************************)

CONSTANTS
    Users, Destinations, Tokens,
    Updates, Senders,          \* /start messages and where each may come from
    LinkRequests,              \* requests to create a link or to disconnect
    MaxLinkFaults,             \* bound of TelegramLinking
    Combinations,              \* of a market and a preset
    Changes,                   \* requests to change a subscription
    SubscriptionLimit,
    MaxChangeFaults,           \* bound of SignalSubscriptions
    Nobody

VARIABLES
    token, connection, update, processed, poller, linkRequest, tokenLock, connectionLock,
    confirmed, linkFaults,
    row, events, clock, change, subscriberLock, changeLock, changeFaults

linkingVars == <<token, connection, update, processed, poller, linkRequest, tokenLock,
                 connectionLock, confirmed, linkFaults>>
subscriptionVars == <<row, events, clock, change, subscriberLock, changeLock, changeFaults>>

Linking == INSTANCE TelegramLinking WITH
    Requests <- LinkRequests, MaxFaults <- MaxLinkFaults,
    request <- linkRequest, rowLock <- connectionLock, faults <- linkFaults

Subscriptions == INSTANCE SignalSubscriptions WITH
    Requests <- Changes, Limit <- SubscriptionLimit, MaxFaults <- MaxChangeFaults,
    request <- change, userLock <- subscriberLock, rowLock <- changeLock,
    faults <- changeFaults

ASSUME LinksAssumption == Linking!LinkingAssumption
ASSUME ChangesAssumption == Subscriptions!SubscriptionsAssumption

-----------------------------------------------------------------------------
\* The invariants of both: messages are confirmed once, destinations have one owner,
\* only one kind of deadlock arises; the events of a subscription tell its row.
LinksAndSubscriptionsAreSound ==
    Linking!LinkingIsSound /\ Subscriptions!SubscriptionsAreSound

\* A connection comes to life only by consuming an open token (see TelegramLinking).
LinkedByOpenToken == Linking!LinkedByOpenToken

\* A subscription is created only below the limit (see SignalSubscriptions).
CreatedBelowLimit == Subscriptions!CreatedBelowLimit
=============================================================================
