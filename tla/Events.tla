------------------------------- MODULE Events -------------------------------
(***************************************************************************)
(* jQuery.event (vendor.js of elasticSearch): the lists of handlers, the   *)
(* one native listener per element and type that stands for them, and the  *)
(* dispatch of events that are triggered by code or by the browser.        *)
(*                                                                         *)
(* Handlers bind, unbind, trigger and throw while a dispatch goes on, and  *)
(* the default action of an event that was triggered makes the browser     *)
(* dispatch events of its own; the dispatches under way are a stack.       *)
(***************************************************************************)
EXTENDS Naturals, Sequences, FiniteSets, Sieve

CONSTANTS
  Elem, Parent,   \* the elements; Parent[e] is None at the top
  Type,           \* event types
  Active,         \* the types for which elements have a method of that name
  Func,           \* the functions that are bound, that is, their guids
  Namespace,
  MaxBound,       \* bound: handlers in one list
  MaxDepth        \* bound: dispatches on the stack

None == "none"
ElemAssumption == Parent \in [Elem -> Elem \union {None}] /\ None \notin Elem
TypeAssumption == Active \subseteq Type /\ None \notin Type

VARIABLES
  events,      \* per element and type, the handlers in order
  keys,        \* per element, the types for which events has a list
  listening,   \* per element, the types for which eventHandle is registered
  hasHandle,   \* per element, whether its data hold eventHandle
  triggered,   \* jQuery.event.triggered
  undone,      \* whether, in the course of a default action, another trigger set or reset triggered
  stack,       \* the dispatches under way
  control      \* "user": user code runs; "engine": the topmost dispatch goes on

lists == <<events, keys, listening, hasHandle>>
vars == <<lists, triggered, undone, stack, control>>

Handler == [guid : Func, ns : SUBSET Namespace, one : BOOLEAN]

\* A dispatch: where it is on its way up, what is left of the snapshot of that element's
\* handlers, and the flags of the event.  kind tells who began it: trigger, the browser,
\* or the browser because of the default action of a trigger of the same type.
Dispatch == [elem : Elem, target : Elem, type : Type, ns : SUBSET Namespace,
             todo : Seq(Handler), stopped : BOOLEAN, prevented : BOOLEAN,
             stage : {"handlers", "action"}, kind : {"trigger", "native", "second"}]

Top == stack[Len(stack)]
Below == SubSeq(stack, 1, Len(stack) - 1)
Put(d) == Append(Below, d)
InUserCode == control = "user"

Init ==
  /\ events = [e \in Elem |-> [t \in Type |-> <<>>]]
  /\ keys = [e \in Elem |-> {}] /\ listening = [e \in Elem |-> {}]
  /\ hasHandle = [e \in Elem |-> FALSE]
  /\ triggered = None /\ undone = FALSE /\ stack = <<>> /\ control = "user"

-----------------------------------------------------------------------------
\* bind and one: event.add.
Add(e, t, h) ==
  /\ InUserCode /\ Len(events[e][t]) < MaxBound
  /\ events' = [events EXCEPT ![e][t] = Append(@, h)]
  /\ keys' = [keys EXCEPT ![e] = @ \union {t}]
  /\ listening' = [listening EXCEPT ![e] = IF t \in keys[e] THEN @ ELSE @ \union {t}]
  /\ hasHandle' = [hasHandle EXCEPT ![e] = TRUE]
  /\ UNCHANGED <<triggered, undone, stack, control>>

\* Whether a handler is meant by the functions fs and the namespaces ns.
Meant(h, fs, ns) == h.guid \in fs /\ ns \subseteq h.ns

\* Mutant: the listener is kept.
RemoveListening(e, ts, fs, ns) ==
  LET left == [t \in Type |-> IF t \in ts THEN Sifted(events[e][t], {h \in Handler : ~Meant(h, fs, ns)})
                              ELSE events[e][t]]
      gone == {t \in ts \cap keys[e] : left[t] = <<>>}
  IN /\ events' = [events EXCEPT ![e] = left]
     /\ keys' = [keys EXCEPT ![e] = @ \ gone]
     /\ hasHandle' = [hasHandle EXCEPT ![e] = @ /\ keys[e] \ gone # {}]
     /\ UNCHANGED listening

\* Mutant: the data are kept.
RemoveKeeping(e, ts, fs, ns) ==
  LET left == [t \in Type |-> IF t \in ts THEN Sifted(events[e][t], {h \in Handler : ~Meant(h, fs, ns)})
                              ELSE events[e][t]]
      gone == {t \in ts \cap keys[e] : left[t] = <<>>}
  IN /\ events' = [events EXCEPT ![e] = left]
     /\ keys' = [keys EXCEPT ![e] = @ \ gone]
     /\ listening' = [listening EXCEPT ![e] = @ \ gone]
     /\ UNCHANGED hasHandle

\* event.remove: of the types ts, the handlers that are meant.  With a list goes its
\* listener, and with the last list the element's data.
Remove(e, ts, fs, ns) ==
  LET left == [t \in Type |-> IF t \in ts THEN Sifted(events[e][t], {h \in Handler : ~Meant(h, fs, ns)})
                              ELSE events[e][t]]
      gone == {t \in ts \cap keys[e] : left[t] = <<>>}
  IN /\ events' = [events EXCEPT ![e] = left]
     /\ keys' = [keys EXCEPT ![e] = @ \ gone]
     /\ listening' = [listening EXCEPT ![e] = @ \ gone]
     /\ hasHandle' = [hasHandle EXCEPT ![e] = @ /\ keys[e] \ gone # {}]

Unbind(e, ts, fs, ns) ==
  /\ InUserCode
  /\ Remove(e, ts, fs, ns)
  /\ UNCHANGED <<triggered, undone, stack, control>>

-----------------------------------------------------------------------------
\* The handlers that eventHandle calls on e: none while the default action of a trigger
\* of that type runs.
Snapshot(e, t, ns) ==
  IF triggered = t \/ ~hasHandle[e] THEN <<>> ELSE Sifted(events[e][t], {h \in Handler : ns \subseteq h.ns})

\* event.trigger: a dispatch begins, in which jQuery calls eventHandle by itself.  With
\* only, as triggerHandler calls it, the event does not go up and has no default action.
Trigger(e, t, ns, only) ==
  /\ InUserCode /\ Len(stack) < MaxDepth
  /\ stack' = Append(stack, [elem |-> e, target |-> e, type |-> t, ns |-> ns, todo |-> Snapshot(e, t, ns),
                             stopped |-> only, prevented |-> only, stage |-> "handlers", kind |-> "trigger"])
  /\ control' = "engine"
  /\ UNCHANGED <<lists, triggered, undone>>

\* The browser dispatches an event, at rest or in the course of a default action, to the
\* elements that have a listener.
Native(e, t) ==
  /\ stack = <<>> \/ (control = "engine" /\ Top.stage = "action")
  /\ Len(stack) < MaxDepth
  /\ stack' = Append(stack,
       [elem |-> e, target |-> e, type |-> t, ns |-> {},
        todo |-> IF t \in listening[e] THEN Snapshot(e, t, {}) ELSE <<>>,
        stopped |-> FALSE, prevented |-> FALSE, stage |-> "handlers",
        kind |-> IF stack # <<>> /\ Top.type = t /\ Top.target = e THEN "second" ELSE "native"])
  /\ control' = "engine"
  /\ UNCHANGED <<lists, triggered, undone>>

\* handle calls the next handler of the snapshot.  One that was bound by one unbinds
\* itself first, and with it all that has its guid.
CallNext ==
  /\ control = "engine" /\ stack # <<>> /\ Top.stage = "handlers" /\ Top.todo # <<>>
  /\ IF Head(Top.todo).one THEN Remove(Top.elem, {Top.type}, {Head(Top.todo).guid}, {})
     ELSE UNCHANGED lists
  /\ stack' = Put([Top EXCEPT !.todo = Tail(@)])
  /\ control' = "user"
  /\ UNCHANGED <<triggered, undone>>

\* The handler returns: it may have prevented the default action, stopped the event, or
\* stopped it for the other handlers too; false does the first two.
Return(prevents, stops, immediately) ==
  /\ control = "user" /\ stack # <<>>
  /\ immediately => stops
  /\ stack' = Put([Top EXCEPT !.prevented = @ \/ prevents, !.stopped = @ \/ stops,
                              !.todo = IF immediately THEN <<>> ELSE @])
  /\ control' = "engine"
  /\ UNCHANGED <<lists, triggered, undone>>

\* Mutant: the document's parent is not looked at.
BubbleOver ==
  /\ control = "engine" /\ stack # <<>> /\ Top.stage = "handlers" /\ Top.todo = <<>> /\ ~Top.stopped
  /\ LET up == Parent[Top.elem]
     IN stack' = Put([Top EXCEPT !.elem = up, !.todo = IF up = None THEN <<>> ELSE Snapshot(up, Top.type, Top.ns)])
  /\ UNCHANGED <<lists, triggered, undone, control>>

\* The event goes up.
Bubble ==
  /\ control = "engine" /\ stack # <<>> /\ Top.stage = "handlers" /\ Top.todo = <<>>
  /\ ~Top.stopped /\ Parent[Top.elem] # None
  /\ LET up == Parent[Top.elem]
         heard == Top.kind = "trigger" \/ Top.type \in listening[up]
     IN stack' = Put([Top EXCEPT !.elem = up, !.todo = IF heard THEN Snapshot(up, Top.type, Top.ns) ELSE <<>>])
  /\ UNCHANGED <<lists, triggered, undone, control>>

AtEnd ==
  /\ control = "engine" /\ stack # <<>> /\ Top.stage = "handlers" /\ Top.todo = <<>>
  /\ Top.stopped \/ Parent[Top.elem] = None

\* Nobody has prevented the default action of an event that was triggered; and the element
\* has a method of that name.
Unprevented == Top.kind = "trigger" /\ ~Top.prevented
HasAction == Unprevented /\ Top.type \in Active

\* A default action goes on in which the topmost dispatch came about.
InAction == \E i \in 1..Len(Below) : Below[i].stage = "action"

\* Mutant: nothing tells eventHandle what to discard.
ActUnset ==
  /\ AtEnd /\ HasAction
  /\ undone' = InAction
  /\ stack' = Put([Top EXCEPT !.stage = "action"])
  /\ UNCHANGED <<lists, triggered, control>>

\* The element's method of that name is called.
Act ==
  /\ AtEnd /\ HasAction
  /\ triggered' = Top.type /\ undone' = InAction
  /\ stack' = Put([Top EXCEPT !.stage = "action"])
  /\ UNCHANGED <<lists, control>>

\* Where control goes when the topmost dispatch ends: to the method that made the browser
\* begin it, or to the code that called trigger.
Resume == IF Below # <<>> /\ Below[Len(Below)].stage = "action" THEN "engine" ELSE "user"

\* There is no method to call; triggered is reset all the same, unless the default was prevented.
End ==
  /\ AtEnd /\ ~HasAction
  /\ IF Unprevented THEN triggered' = None /\ undone' = InAction ELSE UNCHANGED <<triggered, undone>>
  /\ stack' = Below /\ control' = Resume
  /\ UNCHANGED lists

\* Mutant: triggered is not reset.
ActedStill ==
  /\ control = "engine" /\ stack # <<>> /\ Top.stage = "action"
  /\ stack' = Below /\ control' = Resume
  /\ UNCHANGED <<lists, triggered, undone>>

\* The method returns, or throws, which trigger ignores.
Acted ==
  /\ control = "engine" /\ stack # <<>> /\ Top.stage = "action"
  /\ triggered' = None /\ undone' = InAction
  /\ stack' = Below /\ control' = Resume
  /\ UNCHANGED lists

\* A handler throws, or lets the exception of one below it pass.  Through trigger it goes
\* to the code that called it; the browser reports it and goes on to the next listener.
Throw ==
  /\ control = "user" /\ stack # <<>>
  /\ IF Top.kind = "trigger" THEN stack' = Below /\ control' = "user"
     ELSE stack' = Put([Top EXCEPT !.todo = <<>>]) /\ control' = "engine"
  /\ UNCHANGED <<lists, triggered, undone>>

\* unbind without types looks at no function.
User ==
  \E e \in Elem :
    \/ \E t \in Type, h \in Handler : Add(e, t, h)
    \/ \E t \in Type, fs \in {Func} \union {{f} : f \in Func}, ns \in SUBSET Namespace : Unbind(e, {t}, fs, ns)
    \/ \E ns \in SUBSET Namespace : Unbind(e, Type, Func, ns)
    \/ \E t \in Type, ns \in SUBSET Namespace, only \in BOOLEAN : Trigger(e, t, ns, only)

Next ==
  \/ User
  \/ \E e \in Elem, t \in Type : Native(e, t)
  \/ CallNext \/ Bubble \/ Act \/ End \/ Acted \/ Throw
  \/ \E p, s, m \in BOOLEAN : Return(p, s, m)

Spec == Init /\ [][Next]_vars
-----------------------------------------------------------------------------
\* The types of the variables.
TypeOK ==
  /\ events \in [Elem -> [Type -> Seq(Handler)]]
  /\ keys \in [Elem -> SUBSET Type] /\ listening \in [Elem -> SUBSET Type]
  /\ hasHandle \in [Elem -> BOOLEAN] /\ triggered \in Type \union {None} /\ undone \in BOOLEAN
  /\ stack \in Seq(Dispatch) /\ control \in {"user", "engine"}

\* The browser calls eventHandle for exactly the types that have handlers, whatever was
\* bound and unbound in between, by handlers that were running or by one (2600-2616, 2737-2745).
Listening == \A e \in Elem, t \in Type :
  /\ t \in listening[e] <=> events[e][t] # <<>>
  /\ t \in keys[e] <=> events[e][t] # <<>>

\* An element without handlers keeps no data ("Remove the expando if it's no longer
\* used", 2747-2760), and one with handlers has its eventHandle.
NoLeftover == \A e \in Elem : hasHandle[e] <=> \E t \in Type : events[e][t] # <<>>

\* When nothing is dispatched, no event is discarded (2887-2896).
NothingDiscarded == stack = <<>> => triggered = None

\* What the browser dispatches of a type while a trigger's default action of that type goes on is
\* not handled a second time, on no element it passes, unless another trigger that came about in
\* that action took triggered away (2613, 2887-2896).
SecondDiscarded == ~undone =>
  \A k \in 1..Len(stack) : \A j \in (k + 1)..Len(stack) :
    stack[k].stage = "action" /\ stack[j].type = stack[k].type => stack[j].todo = <<>>
=============================================================================
