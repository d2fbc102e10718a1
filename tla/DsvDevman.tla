------------------------------ MODULE DsvDevman ------------------------------
(***************************************************************************)
(* Device managers (devman/src/devman.cpp) on top of DsvServer.  Each runs *)
(* its script once: it creates, subscribes and sets the log level variable *)
(* of its device, looks for the device list all of them share, creates it  *)
(* if it finds none, joins it, and then follows its notifications.         *)
(* The files of DSV_CreateWithJson are not there: it creates nothing.      *)
(***************************************************************************)
EXTENDS DsvServer

CONSTANTS Devices,     \* the clients that are device managers
          DevList,     \* [0]/SYS/DEV_LIST
          LogLevel,    \* per device: the name of its log level variable
          InstID,      \* per device: its instance ID
          Level,       \* per device: the log level its options ask for
          Warning,     \* LOG_WARNING, the level a variable is created with
          DefaultID    \* DSV_DEFAULT_INSTID

ASSUME DevmanAssumption ==
  /\ Devices \subseteq Clients
  /\ DevList \in Names /\ TypeOf[DevList] = "ARR"
  /\ LogLevel \in [Devices -> Names \ {DevList}]
  /\ \A d \in Devices : TypeOf[LogLevel[d]] = "NUM"
  /\ InstID \in [Devices -> Data]
  /\ Level \in [Devices -> Data]
  /\ Warning \in Data /\ DefaultID \in Data

VARIABLES at,        \* per device: the next call of its script
          level      \* per device: g_state.log_level

devvars == <<allvars, at, level>>

DevmanInit ==
  /\ ServerInit
  /\ at = [d \in Devices |-> "open"]
  /\ level = Level

Goto(d, p) == at' = [at EXCEPT ![d] = p]

\* Device d makes library call A of its script and goes on to p.
Step(d, p, A, q) == at[d] = p /\ A /\ Goto(d, q) /\ UNCHANGED level

\* Device d has the answer it waits for: with a handle it goes on to `found'.
Answered(d, p, found, missing) ==
  Step(d, p, Return(d), IF call[d].hndl # Nil THEN found ELSE missing)

\* The 100 ms of DSV_Open are enough for the connection of a device.
DSV_Open(d) == Join(d)

\* The create and the subscription of a device's log level variable.
DSV_LogInit(d) ==
  \/ Step(d, "create_level", DSV_Create(d, LogLevel[d], <<Warning>>), "sub_level")
  \/ Step(d, "sub_level", DSV_SubByName(d, LogLevel[d]), "find_level")

InitLogmask(d) ==
  \/ Step(d, "open", DSV_Open(d), "create_level")
  \/ DSV_LogInit(d)
  \/ Step(d, "find_level", DSV_Handle(d, LogLevel[d]), "await_level")
  \/ Answered(d, "await_level", "set_level", "find_list")
  \/ Step(d, "set_level", DSV_Set(d, LogLevel[d], <<Level[d]>>), "find_list")

\* InitDevlist: a device that finds no list creates it and looks again.
FindDevlist(d) ==
  \/ Step(d, "find_list", DSV_Handle(d, DevList), "await_list")
  \/ Answered(d, "await_list", "sub_list", "create_list")
  \/ Step(d, "create_list", DSV_Create(d, DevList, <<DefaultID>>), "find_again")
  \/ Step(d, "find_again", DSV_Handle(d, DevList), "await_again")
  \/ Answered(d, "await_again", "sub_list", "listen")

JoinDevlist(d) ==
  \/ Step(d, "sub_list", DSV_SubByName(d, DevList), "join_list")
  \/ Step(d, "join_list", DSV_AddItemToArray(d, DevList, InstID[d]), "listen")

\* Both creates send a record whose description, tags and flags nobody has
\* set: the description may be an address that ends the process.
CreateUndefined(d) ==
  /\ at[d] \in {"create_level", "create_list"}
  /\ Goto(d, "dead")
  /\ UNCHANGED <<allvars, level>>

\* ProcessNotifications tells its variables by their handles.  A bug's form:
\* it takes every notification for one of its log level.
LevelNotifiedAny(d, f) == f.val[1]
LevelNotified(d, f) == IF f.hndl = cache[d][LogLevel[d]] THEN f.val[1] ELSE level[d]

ProcessNotifications(d) ==
  /\ at[d] = "listen"
  /\ HandleNotification(d)
  /\ level' = [level EXCEPT ![d] = LevelNotified(d, Head(out[d]))]
  /\ UNCHANGED at

Served ==
  /\ \/ HandleBackend
     \/ \E d \in Devices : HandleFrontend(d) \/ Accept(d) \/ HandleReply(d)
  /\ UNCHANGED <<at, level>>

DevmanNext ==
  \/ \E d \in Devices : \/ InitLogmask(d) \/ FindDevlist(d) \/ JoinDevlist(d)
                        \/ CreateUndefined(d) \/ ProcessNotifications(d)
  \/ Served

DevmanSpec == DevmanInit /\ [][DevmanNext]_devvars

-----------------------------------------------------------------------------
(* Properties.                                                             *)

IsPrefix(s, t) == Len(s) <= Len(t) /\ \A i \in DOMAIN s : s[i] = t[i]

Places == {"open", "create_level", "sub_level", "find_level", "await_level", "set_level",
           "find_list", "await_list", "create_list", "find_again", "await_again",
           "sub_list", "join_list", "listen", "dead"}

DevmanTypeOK == /\ at \in [Devices -> Places]
                /\ level \in [Devices -> Data]

\* However many devices find no list and create one, the list that the first
\* of them created only grows at its end: nobody's entry is lost
\* (InitDevlist, var_create, var_add_item).
ListOnlyGrows ==
  [][(DevList \in Created) =>
       IsPrefix(gmap[DevList].val, gmap'[DevList].val)]_devvars

\* The list has the default instance and each device that found it, once, as
\* far as their messages are through: no join is lost or done twice, whoever
\* created the list and however late its create arrived (devman.cpp:96).
Joined == {d \in Devices : at[d] = "listen" /\ cache[d][DevList] # Nil}
OnTheWay == {d \in Devices : \E i \in DOMAIN front[d] : front[d][i].op = "ADD_ITEM"}
JoinsCounted ==
  /\ Joined # {} => DevList \in Created
  /\ DevList \in Created =>
       Len(gmap[DevList].val) = 1 + Cardinality(Joined) - Cardinality(OnTheWay)

\* A device that has read what it was sent of its log level has the level that
\* the variable has, although the create with its default level reaches it
\* after it has set its own (devman.cpp:77).
LevelIsCurrent ==
  \A d \in Devices :
    LET n == LogLevel[d]
    IN /\ at[d] = "listen" /\ cache[d][n] # Nil
       /\ n \in Created /\ <<d, n>> \in told
       /\ \A i \in DOMAIN out[d] : out[d][i].name # n
       => level[d] = gmap[n].val[1]

\* The devices are clients like any other: what holds of the server's clients
\* holds of them.
DevmanServerSpec == ServerSpec
=============================================================================
