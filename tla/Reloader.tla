------------------------------ MODULE Reloader ------------------------------
(***************************************************************************)
(* The configurations of a Lawgenesis service: the reloaders               *)
(* (configcenter/lawgenes_config.py) that an event loop of its own starts  *)
(* one after the other (LawgenesisService.subscribe), and the local        *)
(* configuration centre (configcenter/local) that reads them from a file   *)
(* and polls it. The service's other threads read the attributes while the *)
(* loop assigns them.                                                      *)
(*                                                                         *)
(* A content is a dictionary with keys for none, one or both of two        *)
(* attributes, or one of two kinds that are none: what ast.literal_eval    *)
(* refuses, a missing section included, and text that evaluates to         *)
(* something else than a dictionary.                                       *)
(***************************************************************************)
EXTENDS Integers, Sequences, FiniteSets, Functions

CONSTANTS
    Order,        \* the configurations, in the order subscribe() starts their reloaders
    Dicts,        \* contents that are dictionaries
    Given,        \* the attributes each dictionary has keys for, in its order
    Files,        \* the files the service may be started on
    MaxChanges    \* bound of the changes of the file

Configs == {Order[i] : i \in 1..Len(Order)}
Contents == Dicts \cup {"bad", "text"}

ASSUME ReloaderAssumption ==
    /\ Order \in Seq(STRING)
    /\ Dicts \cap {"bad", "text", "none"} = {} /\ MaxChanges \in Nat
    /\ Files \subseteq [Configs -> Contents]
    /\ Given \in [Dicts -> {<<>>, <<1>>, <<2>>, <<1, 2>>, <<2, 1>>}]

VARIABLES
    file, changes,      \* the section of each configuration in the file
    \* LocalConfigCenter: what the client of each class has read when it was made
    snapshot,
    \* ConfigReloader
    content,            \* _cache_config
    attribute,          \* the two attributes of each, the dictionary each is from
    \* _LocalLister
    listener, digest,   \* its task, and the content last_md5 is of
    \* the event loop
    loader,             \* the task subscribe(), and the reloader it has reached
    assigning           \* update_cls: the attributes that are left to assign

fileVars == <<file, changes>>
loopVars == <<snapshot, content, attribute, listener, digest, loader, assigning>>
reloaderVars == <<fileVars, loopVars>>

Nothing == [config |-> "none", left |-> <<>>]

\* A class that was used before in the process has its client already.
ReloaderInit(edits, before) ==
    /\ file \in Files /\ changes = MaxChanges - edits
    /\ snapshot = before
    /\ content = [c \in Configs |-> "none"]
    /\ attribute = [c \in Configs |-> <<"none", "none">>]
    /\ listener = [c \in Configs |-> "none"] /\ digest = [c \in Configs |-> "none"]
    /\ loader = [pc |-> "fetch", at |-> 1]
    /\ assigning = Nothing

\* The file is edited.
Edit(c) ==
    /\ changes < MaxChanges
    /\ \E v \in Contents \ {file[c]} : file' = [file EXCEPT ![c] = v]
    /\ changes' = changes + 1
    /\ UNCHANGED loopVars

Free == assigning = Nothing
Loads(pc, c) == loader.pc = pc /\ Order[loader.at] = c

\* The attributes update_cls assigns: those the content has keys for. An attribute
\* without a key keeps its value.
FirstOnly(v) == SelectSeq(Given[v], LAMBDA i : i = 1)      \* Mutation
Attributes(v) == Given[v]

Left(c, attributes) ==
    IF attributes = <<>> THEN Nothing ELSE [config |-> c, left |-> attributes]

\* The cached content is replaced, and update_cls begins.
Adopt(c, v) ==
    /\ content' = [content EXCEPT ![c] = v]
    /\ assigning' = Left(c, Attributes(v))

\* The next reloader, or the end of the loop's start-up.
Advance ==
    loader' = IF loader.at = Len(Order) THEN [loader EXCEPT !.pc = "running"]
              ELSE [pc |-> "fetch", at |-> loader.at + 1]

\* A configuration centre that cannot be made, of a file that is not there or that does
\* not parse, ends the task of subscribe().
ClientRaises(c) ==
    /\ Loads("fetch", c) /\ Free /\ snapshot[c] = "none"
    /\ loader' = [loader EXCEPT !.pc = "dead"]
    /\ UNCHANGED <<fileVars, snapshot, content, attribute, listener, digest, assigning>>

\* client() makes the client of the class, async_get_config returns what that
\* client read when it was made. Text that is no dictionary ends the task, for the
\* reloaders that follow too; what cannot be parsed leaves this one unsubscribed.
Fetch(c) ==
    /\ Loads("fetch", c) /\ Free
    /\ snapshot' = [snapshot EXCEPT ![c] = IF @ = "none" THEN file[c] ELSE @]
    /\ LET v == snapshot'[c]
       IN \/ /\ v \in Dicts
             /\ Adopt(c, v)
             /\ loader' = [loader EXCEPT !.pc = "subscribe"]
          \/ /\ v = "text"
             /\ loader' = [loader EXCEPT !.pc = "dead"]
             /\ content' = [content EXCEPT ![c] = "text"]
             /\ UNCHANGED assigning
          \/ /\ v = "bad"
             /\ Advance
             /\ UNCHANGED <<content, assigning>>
    /\ UNCHANGED <<fileVars, attribute, listener, digest>>

\* update_cls assigns one attribute after the other.
Assign ==
    /\ ~Free
    /\ LET c == assigning.config
       IN /\ attribute' = [attribute EXCEPT ![c][Head(assigning.left)] = content[c]]
          /\ assigning' = Left(c, Tail(assigning.left))
    /\ UNCHANGED <<fileVars, snapshot, content, listener, digest, loader>>

\* async_subscribe starts the task of a listener.
Subscribe(c) ==
    /\ Loads("subscribe", c) /\ Free
    /\ listener' = [listener EXCEPT ![c] = "polling"]
    /\ Advance
    /\ UNCHANGED <<fileVars, snapshot, content, attribute, digest, assigning>>

ReloadsLater(c) == digest[c] # "none" /\ file[c] \in Dicts      \* Mutation
Reloads(c) == file[c] \in Dicts

\* Every 30 seconds the listener reads the file, and reloads when the digest is not
\* the last one, which is None at first. reload ignores what is no dictionary.
Poll(c) ==
    /\ listener[c] = "polling" /\ Free /\ digest[c] # file[c]
    /\ digest' = [digest EXCEPT ![c] = file[c]]
    /\ IF Reloads(c) THEN Adopt(c, file[c]) ELSE UNCHANGED <<content, assigning>>
    /\ UNCHANGED <<fileVars, snapshot, attribute, listener, loader>>

\* A file that is read while it is being written does not parse: the exception ends
\* the task of the listener.
PollFails(c) ==
    /\ listener[c] = "polling" /\ Free /\ changes < MaxChanges
    /\ listener' = [listener EXCEPT ![c] = "dead"]
    /\ changes' = changes + 1
    /\ UNCHANGED <<file, snapshot, content, attribute, digest, loader, assigning>>

Loop == Assign \/ \E c \in Configs : Fetch(c) \/ ClientRaises(c) \/ Subscribe(c) \/ Poll(c)
ReloaderNext == Loop \/ \E c \in Configs : Edit(c) \/ PollFails(c)

----------------------------------------------------------------------------
(* Properties *)

ReloaderTypeOK ==
    /\ file \in [Configs -> Contents] /\ changes \in 0..MaxChanges
    /\ snapshot \in [Configs -> {"none"} \cup Contents]
    /\ content \in [Configs -> {"none", "text"} \cup Dicts]
    /\ \A c \in Configs, i \in 1..2 : attribute[c][i] \in {"none"} \cup Dicts
    /\ listener \in [Configs -> {"none", "polling", "dead"}]
    /\ digest \in [Configs -> {"none"} \cup Contents]
    /\ loader \in [pc : {"fetch", "subscribe", "running", "dead"}, at : 1..Len(Order)]
    /\ assigning.config \in {"none"} \cup Configs

\* A reloader whose listener lives gives the attributes its file has keys for the values
\* of the file, also those that changed before it subscribed or while it was loading; an
\* attribute whose key was taken out keeps the value it had (local_configcenter.py 23-30,
\* lawgenes_config.py 77-160).
Fresh ==
    \A c \in Configs :
        []<>(\/ listener[c] # "polling" \/ file[c] \notin Dicts
             \/ \A i \in Range(Given[file[c]]) : attribute[c][i] = file[c])
=============================================================================
