------------------------------ MODULE Migration ------------------------------
(***************************************************************************)
(* The migration of a node to another MQTT host by a firmware update       *)
(* (esp_rmaker_neo/src/credentials/migration.c), with the credential       *)
(* providers (esp_rmaker_neo_common/src/credentials/common.c) and the      *)
(* factory partition (factory_part.c) under it.                            *)
(*                                                                         *)
(* The new image uses the target host from memory, and stores it once it   *)
(* has connected there and can no longer be rolled back; the handlers run  *)
(* on the event loop, which takes events in order.  An image that waits    *)
(* for verification is given up by the bootloader at the next reset        *)
(* (external).  A node without a stored id takes the name in its           *)
(* certificate.                                                            *)
(***************************************************************************)
EXTENDS Integers, Sequences

CONSTANTS
    MaxQueue,  \* bound: events in the loop
    MaxInits,  \* bound: initialisations of the node
    MaxFaults  \* bound: calls and writes that fail

(* What is assumed of the constants.                                       *)
MigrationConstants == MaxQueue \in Nat /\ MaxInits \in Nat /\ MaxFaults \in Nat

VARIABLES
    id, host,            \* the factory partition: an id is stored; the host stored
    image, pending,      \* the image that runs; it waits for verification
    up,                  \* the node is initialised
    flags,               \* __flags
    providers,           \* what the providers in memory replace: "id", "host"
    events,              \* the event loop
    timer,               \* __timeout_task
    online, connected,   \* the start task found the network up; the host it is connected to
    inits, faults,       \* counted against MaxInits and MaxFaults
    givenUp              \* history: no time-out watches this start, one could not be armed or acted on

partition == <<id, host>>
boot      == <<image, pending>>
link      == <<online, connected>>
vars      == <<partition, boot, up, flags, providers, events, timer, link, inits, faults, givenUp>>

WriteAny == {"write_id", "write_host"}
Ready    == {"connected", "valid"}

(* esp_rmaker_credentials_get_mqtt_host and the host of                    *)
(* esp_rmaker_credentials_get_mqtt_conn_params                             *)
ConnHost == IF "host" \in providers THEN "target" ELSE host

(* esp_rmaker_credentials_get_thing_name                                   *)
HasId == id \/ "id" \in providers

-----------------------------------------------------------------------------
(* esp_rmaker_migration_check and esp_rmaker_migration_start, of an image  *)
(* that is to migrate.  What is to be written is kept from an earlier      *)
(* initialisation.                                                         *)
CheckedFlags ==
    IF flags \cap WriteAny # {} THEN flags
    ELSE (IF HasId THEN {} ELSE {"write_id"}) \cup (IF ConnHost = "target" THEN {} ELSE {"write_host"})

(* esp_rmaker_credentials_override                                         *)
CheckedProviders ==
    providers \cup (IF "write_id" \in CheckedFlags THEN {"id"} ELSE {})
              \cup (IF "write_host" \in CheckedFlags THEN {"host"} ELSE {})

NodeInit ==
    /\ ~up /\ inits < MaxInits
    /\ up' = TRUE /\ inits' = inits + 1
    /\ IF image = "new"
       THEN /\ providers' = CheckedProviders
            /\ flags' = IF CheckedFlags \cap WriteAny = {} THEN CheckedFlags
                        ELSE CheckedFlags \cup {"started"} \cup (IF pending THEN {} ELSE {"valid"})
       ELSE UNCHANGED <<flags, providers>>
    /\ UNCHANGED <<partition, boot, events, timer, link, faults, givenUp>>

(* An initialisation that fails is torn down, but what replaces the        *)
(* credentials in memory stays: nothing yet, the name of the certificate   *)
(* alone, or all of it when the start or what follows it fails.            *)
NodeInitFails ==
    /\ ~up /\ inits < MaxInits /\ faults < MaxFaults
    /\ inits' = inits + 1 /\ faults' = faults + 1
    /\ \/ UNCHANGED <<flags, providers>>
       \/ /\ image = "new" /\ flags \cap WriteAny = {} /\ ~HasId
          /\ flags' = {"write_id"} /\ providers' = providers \cup {"id"}
       \/ /\ image = "new"
          /\ flags' = CheckedFlags \cap WriteAny /\ providers' = CheckedProviders
    /\ UNCHANGED <<partition, boot, up, events, timer, link, givenUp>>

(* esp_rmaker_migration_stop, in the teardown of the node                  *)
NodeDeinit ==
    /\ up
    /\ up' = FALSE /\ online' = FALSE /\ connected' = "none"
    /\ flags' = IF "started" \in flags THEN flags \cap WriteAny ELSE flags
    /\ timer' = (timer /\ "started" \notin flags)
    /\ givenUp' = FALSE
    /\ UNCHANGED <<partition, boot, providers, events, inits, faults>>

(* esp_rmaker_migration_on_network_up, in the start task of the node; a    *)
(* time-out that cannot be scheduled is only logged.                       *)
NetworkUp ==
    /\ up /\ ~online
    /\ online' = TRUE
    /\ \/ timer' = (timer \/ "started" \in flags) /\ UNCHANGED <<faults, givenUp>>
       \/ /\ "started" \in flags /\ ~timer /\ faults < MaxFaults
          /\ faults' = faults + 1 /\ givenUp' = TRUE
          /\ UNCHANGED timer
    /\ UNCHANGED <<partition, boot, up, flags, providers, events, connected, inits>>

Post(e) == events' = IF Len(events) < MaxQueue THEN Append(events, e) ELSE events

Connect ==
    /\ up /\ online /\ connected = "none" /\ HasId /\ Len(events) < MaxQueue
    /\ connected' = ConnHost
    /\ Post("connected")
    /\ UNCHANGED <<partition, boot, up, flags, providers, timer, online, inits, faults, givenUp>>

Disconnect ==
    /\ connected # "none"
    /\ connected' = "none"
    /\ UNCHANGED <<partition, boot, up, flags, providers, events, timer, online, inits, faults, givenUp>>

(* __timeout_task_fn                                                       *)
TimeOut ==
    /\ timer /\ Len(events) < MaxQueue
    /\ \A i \in DOMAIN events : events[i] # "timeout"
    /\ Post("timeout")
    /\ UNCHANGED <<partition, boot, up, flags, providers, timer, link, inits, faults, givenUp>>

(* The application accepts the image; through the OSAL this is an event.   *)
MarkValid ==
    /\ pending /\ up
    /\ pending' = FALSE
    /\ \/ Len(events) < MaxQueue /\ Post("app_valid")
       \/ UNCHANGED events
    /\ UNCHANGED <<partition, image, up, flags, providers, timer, link, inits, faults, givenUp>>

-----------------------------------------------------------------------------
(* Mutant of WriteReady: the first connection is enough.                   *)
WriteWhenConnected(f) == "connected" \in f /\ f \cap WriteAny # {}

WriteReady(f) == Ready \subseteq f /\ f \cap WriteAny # {}

(* __write_back, and the writes of the factory partition: the node id,     *)
(* then the host; a write that fails ends it.                              *)
WriteBack(f) ==
    \/ /\ id' = TRUE
       /\ host' = IF "write_host" \in f THEN "target" ELSE host
       /\ flags' = f \ WriteAny
       /\ faults' = faults
    \/ /\ faults < MaxFaults /\ faults' = faults + 1
       /\ \/ flags' = f /\ id' = id
          \/ "write_id" \in f /\ flags' = f \ {"write_id"} /\ id' = TRUE
       /\ host' = host

(* __on_event: a connection or a verified image ...                        *)
OnEvent ==
    /\ events # <<>> /\ Head(events) \in {"connected", "app_valid"}
    /\ events' = Tail(events)
    /\ LET f == IF Head(events) = "connected"
                THEN flags \cup {"connected"} \cup (IF pending THEN {} ELSE {"valid"})
                ELSE flags \cup {"valid"}
       IN  IF "started" \notin flags
           THEN UNCHANGED <<partition, flags, timer, faults>>
           ELSE /\ timer' = (timer /\ Head(events) # "connected")
                /\ IF WriteReady(f) THEN WriteBack(f) ELSE flags' = f /\ UNCHANGED <<partition, faults>>
    /\ UNCHANGED <<boot, up, providers, link, inits, givenUp>>

(* Mutant of OnTimeout: nothing is rolled back.                            *)
OnTimeoutIgnored ==
    /\ events # <<>> /\ Head(events) = "timeout"
    /\ events' = Tail(events)
    /\ timer' = (timer /\ "started" \notin flags)
    /\ UNCHANGED <<partition, boot, up, flags, providers, link, inits, faults, givenUp>>

Reset(img) ==
    /\ image' = img /\ pending' = FALSE
    /\ up' = FALSE /\ flags' = {} /\ providers' = {} /\ events' = <<>> /\ timer' = FALSE
    /\ online' = FALSE /\ connected' = "none" /\ givenUp' = FALSE

(* ... and __on_timeout: without a connection, an image that can be given  *)
(* up is rolled back.  When that fails, it stays, and no other time-out    *)
(* follows ("The MQTT retries continue").                                  *)
OnTimeout ==
    /\ events # <<>> /\ Head(events) = "timeout"
    /\ \/ /\ "started" \in flags /\ "connected" \notin flags /\ pending
          /\ Reset("old")
          /\ UNCHANGED faults
       \/ /\ "started" \in flags /\ "connected" \notin flags /\ pending
          /\ faults < MaxFaults /\ faults' = faults + 1
          /\ events' = Tail(events) /\ timer' = FALSE /\ givenUp' = TRUE
          /\ UNCHANGED <<boot, up, flags, providers, link>>
       \/ /\ ~("started" \in flags /\ "connected" \notin flags /\ pending)
          /\ events' = Tail(events)
          /\ timer' = (timer /\ "started" \notin flags)
          /\ UNCHANGED <<boot, up, flags, providers, link, faults, givenUp>>
    /\ UNCHANGED <<partition, inits>>

(* The power fails: the bootloader gives up an image that is pending.      *)
PowerCut ==
    /\ inits < MaxInits
    /\ Reset(IF pending THEN "old" ELSE image)
    /\ UNCHANGED <<partition, inits, faults>>

-----------------------------------------------------------------------------
(* The new image has been installed; it is pending, or was flashed.        *)
Init ==
    /\ id \in BOOLEAN /\ host \in {"old", "target"}
    /\ image = "new" /\ pending \in BOOLEAN
    /\ up = FALSE /\ flags = {} /\ providers = {} /\ events = <<>> /\ timer = FALSE
    /\ online = FALSE /\ connected = "none"
    /\ inits = 0 /\ faults = 0 /\ givenUp = FALSE
    /\ host = "target" => ~pending

Next == \/ NodeInit \/ NodeInitFails \/ NodeDeinit \/ NetworkUp \/ Connect \/ Disconnect
        \/ TimeOut \/ MarkValid \/ OnEvent \/ OnTimeout \/ PowerCut

Spec == Init /\ [][Next]_vars

(* Timers expire, the event loop runs and the network comes up.            *)
Fairness == /\ WF_vars(NodeInit) /\ WF_vars(NetworkUp)
            /\ WF_vars(TimeOut) /\ WF_vars(OnEvent \/ OnTimeout)

-----------------------------------------------------------------------------
TypeOK ==
    /\ id \in BOOLEAN /\ pending \in BOOLEAN /\ up \in BOOLEAN /\ timer \in BOOLEAN
    /\ online \in BOOLEAN /\ host \in {"old", "target"}
    /\ image \in {"old", "new"} /\ flags \subseteq WriteAny \cup Ready \cup {"started"}
    /\ providers \subseteq {"id", "host"}
    /\ events \in Seq({"connected", "app_valid", "timeout"}) /\ Len(events) <= MaxQueue
    /\ connected \in {"none", "old", "target"}
    /\ inits \in 0..MaxInits /\ faults \in 0..MaxFaults /\ givenUp \in BOOLEAN

(* A rollback finds what it needs ("Roll back the pending image to keep    *)
(* the stored MQTT host"): the old image never runs with the target host   *)
(* stored, in whatever order connections, verification, timeouts, resets   *)
(* and failing writes come.                                                *)
RollbackKeepsHost == image = "old" => host = "old"

(* A pending image that cannot reach its host does not stay: it connects,  *)
(* is accepted, or is rolled back.  Excepted is a start that no time-out   *)
(* watches, because it could not be scheduled or the roll-back failed.     *)
NotStranded ==
    image = "new" /\ pending /\ "started" \in flags
        ~> ~up \/ "connected" \in flags \/ ~pending \/ image = "old" \/ givenUp

(* A new image that migrates uses the target host, whatever happened to    *)
(* the initialisations before ("keep the first result", migration.c).      *)
UsesTarget == image = "new" /\ up /\ host = "old" => ConnHost = "target"
=============================================================================
