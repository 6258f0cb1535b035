----------------------------- MODULE InputProofs -----------------------------
(***************************************************************************)
(* Theorems about Input, for any keys, buttons and places, any lengths of  *)
(* the queue and the list, and any number of frames and events: what the   *)
(* program is told is what the user did, and what a recording tells it     *)
(* when it is played is what it was told then.                             *)
(*                                                                         *)
(* What the program was told in a frame is a function of what was held     *)
(* down and where the mouse was, in that frame and in the one before it    *)
(* (Told).  So a recording needs to bring back that much, and it does      *)
(* (Noted).                                                                *)
(***************************************************************************)
EXTENDS Input, FiniteSetTheorems, WellFoundedInduction, SequenceTheorems, TLAPS

Spots    == Places \cup {Origin}
Turns    == {-1, 0, 1}
Touching == {"TAP", "DOUBLETAP", "HOLD", "DRAG"}
Gestures == {"NONE"} \cup Touching \cup Swipes

KeysType  == [previous : [Keys -> BOOLEAN], current : [Keys -> BOOLEAN],
              repeated : SUBSET Keys, queue : Seq(Keys), chars : Seq(Keys)]
MouseType == [previous : [Buttons -> BOOLEAN], current : [Buttons -> BOOLEAN],
              wheel : Turns, previousWheel : Turns, position : Spots, previousPosition : Spots]
TouchType == [previous : [Buttons -> BOOLEAN], current : [Buttons -> BOOLEAN], position : Spots]
PadType   == [ready : BOOLEAN, previous : [PadButtons -> BOOLEAN], current : [PadButtons -> BOOLEAN],
              last : PadButtons \cup {"unknown"}]
CoreType  == [keys : KeysType, mouse : MouseType, touch : TouchType, pad : PadType,
              closing : BOOLEAN, shouldClose : BOOLEAN]

SeenType == [ready : BOOLEAN, down : SUBSET PadButtons, up : SUBSET PadButtons,
             pressed : SUBSET PadButtons, released : SUBSET PadButtons]
UserPad  == [present : BOOLEAN, mapped : BOOLEAN, down : SUBSET PadButtons, seen : SeenType]
UserType == [keys : SUBSET Keys, locked : SUBSET Keys, buttons : SUBSET Buttons, place : Spots,
             turned : Turns, pad : UserPad, pressed : Seq(Keys), repeated : SUBSET Keys,
             read : Nat, asksToClose : BOOLEAN, from : Spots, left : Int]

StoryType    == [kind : {"used", "recorded", "played"}, at : {"frame", "polling", "playing"},
                 now : Nat, frame : Nat]
GesturesType == [current : Gestures, tapCounter : {0, 1}, downPosition : Spots, upPosition : Spots,
                 eventTime : Nat, startTime : Nat]

KeyEvents     == [frame : Nat, type : {"KEY_UP", "KEY_DOWN"}, id : Keys]
ButtonEvents  == [frame : Nat, type : {"MOUSE_BUTTON_UP", "MOUSE_BUTTON_DOWN", "TOUCH_UP", "TOUCH_DOWN"},
                  id : Buttons]
PlaceEvents   == [frame : Nat, type : {"MOUSE_POSITION", "TOUCH_POSITION"}, id : Spots]
WheelEvents   == [frame : Nat, type : {"MOUSE_WHEEL_MOTION"}, id : Turns]
PadEvents     == [frame : Nat, type : {"GAMEPAD_BUTTON_UP", "GAMEPAD_BUTTON_DOWN"}, id : PadButtons]
GestureEvents == [frame : Nat, type : {"GESTURE"}, id : Gestures]
Events == KeyEvents \cup ButtonEvents \cup PlaceEvents \cup WheelEvents \cup PadEvents \cup GestureEvents

TypeInv ==
    /\ core \in CoreType /\ user \in UserType /\ story \in StoryType /\ gestures \in GesturesType
    /\ list \in Seq(Events) /\ Len(list) <= Capacity
    /\ \E S : frames \in Seq(S)
    /\ story.at = "playing" => story.kind = "played"

\* The keys of a poll that the queue has room for.
Noticed(pressed) == SubSeq(pressed, 1, IF Len(pressed) < QueueSize THEN Len(pressed) ELSE QueueSize)

\* The state of keys, buttons and mouse is what the user holds and where the mouse was put.
Held ==
    /\ \A k \in Keys : core.keys.current[k] <=> k \in user.keys \cup user.locked
    /\ \A b \in Buttons : /\ core.mouse.current[b] <=> b \in user.buttons
                          /\ core.touch.current[b] <=> b \in user.buttons
    /\ core.mouse.position = user.place /\ core.mouse.previousPosition = user.from
    /\ core.mouse.wheel = user.turned
    /\ core.keys.repeated = user.repeated

\* The queue is what is left of the keys noticed.
Queued ==
    /\ user.read <= Len(Noticed(user.pressed))
    /\ core.keys.queue = SubSeq(Noticed(user.pressed), user.read + 1, Len(Noticed(user.pressed)))
    /\ story.at = "polling" => user.read = 0

\* What the keys were before is what the program was told last.
Before ==
    frames # <<>> => /\ Last(frames).down \subseteq Keys
                     /\ \A k \in Keys : core.keys.previous[k] <=> k \in Last(frames).down

Closing ==
    /\ story.at = "polling" => core.closing = user.asksToClose
    /\ story.at = "frame" => ~core.closing /\ core.shouldClose = user.asksToClose

Pads == story.at = "polling" => PadFollows(PadAnswers)

Following == story.kind # "played" => Held /\ Queued /\ Before /\ Closing /\ Pads
-----------------------------------------------------------------------------
(* Recordings. *)

\* What was held in a frame and where the mouse was; at first, nothing.
Nowhere == [down |-> {}, buttons |-> {}, place |-> Origin]
Stills  == [down : SUBSET Keys, buttons : SUBSET Buttons, place : Spots]

Still(i) ==
    IF i = 0 THEN Nowhere
    ELSE [down |-> frames[i].down, buttons |-> {b \in Buttons : frames[i].mouse[b][2]},
          place |-> frames[i].position]

\* What a program is told of a frame, by what was before it.
Told(was, is) ==
    [pressed |-> is.down \ was.down, down |-> is.down,
     released |-> was.down \ is.down, up |-> Keys \ is.down,
     mouse |-> [b \in Buttons |-> <<b \in is.buttons \ was.buttons, b \in is.buttons,
                                    b \in was.buttons \ is.buttons, b \notin is.buttons>>],
     position |-> is.place, delta |-> [i \in 1..2 |-> is.place[i] - was.place[i]]]

\* The state of a frame, and of the one before it.
Is(is) ==
    /\ \A k \in Keys : core.keys.current[k] <=> k \in is.down
    /\ \A b \in Buttons : /\ core.mouse.current[b] <=> b \in is.buttons
                          /\ core.touch.current[b] <=> b \in is.buttons
    /\ core.mouse.position = is.place
Was(was) ==
    /\ \A k \in Keys : core.keys.previous[k] <=> k \in was.down
    /\ \A b \in Buttons : /\ core.mouse.previous[b] <=> b \in was.buttons
                          /\ core.touch.previous[b] <=> b \in was.buttons
    /\ core.mouse.previousPosition = was.place

\* Each frame that is over was told by itself and the one before.
Coherent == \A i \in 1..Len(frames) : Still(i) \in Stills /\ frames[i] = Told(Still(i - 1), Still(i))

\* The events of frame i that there have to be.
On(i, type, id) == \E j \in DOMAIN list : list[j] = [frame |-> i - 1, type |-> type, id |-> id]

Noted(i) ==
    /\ \A k \in Keys : /\ On(i, "KEY_DOWN", k) <=> k \in Still(i).down
                       /\ On(i, "KEY_UP", k) <=> k \in Still(i - 1).down \ Still(i).down
    /\ \A b \in Buttons : /\ On(i, "MOUSE_BUTTON_DOWN", b) <=> b \in Still(i).buttons
                          /\ On(i, "MOUSE_BUTTON_UP", b) <=> b \in Still(i - 1).buttons \ Still(i).buttons
                          /\ On(i, "TOUCH_DOWN", b) <=> b \in Still(i).buttons
                          /\ On(i, "TOUCH_UP", b) <=> b \in Still(i - 1).buttons \ Still(i).buttons
    /\ \A p \in Spots : On(i, "MOUSE_POSITION", p) <=> p = Still(i).place /\ p # Still(i - 1).place

\* A full list may have left out what came in its last frame and later.
NotedUntilFull ==
    /\ \A j \in DOMAIN list : list[j].frame < Len(frames)
    /\ \A i \in 1..Len(frames) : Noted(i) \/ (Len(list) = Capacity /\ Last(list).frame <= i - 1)

Whole(n) == Len(list) = Capacity => n < Last(list).frame

Recorded ==
    story.kind = "recorded" =>
        /\ Len(frames) = story.frame + (IF story.at = "polling" THEN 1 ELSE 0)
        /\ Len(frames) <= MaxFrames
        /\ Was(Still(Len(frames)))
        /\ \A b \in Buttons : core.touch.current[b] <=> core.mouse.current[b]

Replayed ==
    story.kind = "played" =>
        LET n == story.frame
        IN  /\ Len(frames) = MaxFrames /\ n <= MaxFrames
            /\ story.at = "playing" /\ (n = 0 \/ Whole(n - 1)) => Is(Still(n)) /\ Was(Still(n))
            /\ story.at = "frame" /\ n < MaxFrames /\ Whole(n) => Is(Still(n + 1)) /\ Was(Still(n))
            /\ story.at = "polling" => /\ n < MaxFrames
                                       /\ Whole(n) => Is(Still(n + 1)) /\ Was(Still(n + 1))

Recording == story.kind # "used" => Coherent /\ NotedUntilFull /\ Recorded /\ Replayed

IInv == TypeInv /\ Following /\ Recording
-----------------------------------------------------------------------------
(* Sequences. *)

LEMMA NoticedIs ==
    ASSUME NEW pressed \in Seq(Keys)
    PROVE  /\ Noticed(pressed) \in Seq(Keys)
           /\ Len(pressed) < QueueSize => Noticed(pressed) = pressed
           /\ Len(Noticed(pressed)) = IF Len(pressed) < QueueSize THEN Len(pressed) ELSE QueueSize
BY InputAssumption DEF Noticed

\* One more key that is pressed is noticed while there is room.
LEMMA NoticedMore ==
    ASSUME NEW pressed \in Seq(Keys), NEW key \in Keys
    PROVE  Noticed(pressed \o <<key>>) = Noticed(pressed) \o When(Len(Noticed(pressed)) < QueueSize, key)
<1> DEFINE more == pressed \o <<key>>
<1>1. more \in Seq(Keys) /\ Len(more) = Len(pressed) + 1 /\ more[Len(pressed) + 1] = key
      /\ \A i \in 1..Len(pressed) : more[i] = pressed[i]
  OBVIOUS
<1>2. QueueSize \in Nat /\ Len(pressed) \in Nat
  BY InputAssumption
<1>3. CASE Len(pressed) < QueueSize
  <2>1. Noticed(pressed) = pressed /\ Len(more) <= QueueSize
    BY <1>1, <1>2, <1>3, NoticedIs
  <2>2. Noticed(more) = SubSeq(more, 1, Len(more))
    BY <1>1, <1>2, <2>1 DEF Noticed
  <2>3. Noticed(more) = more
    BY <1>1, <2>2
  <2> QED
    BY <1>3, <2>1, <2>3 DEF When
<1>4. CASE ~(Len(pressed) < QueueSize)
  <2>1. Noticed(more) = SubSeq(more, 1, QueueSize) /\ Noticed(pressed) = SubSeq(pressed, 1, QueueSize)
    BY <1>1, <1>2, <1>4 DEF Noticed
  <2>2. SubSeq(more, 1, QueueSize) = SubSeq(pressed, 1, QueueSize)
    BY <1>1, <1>2, <1>4
  <2>3. Noticed(pressed) \in Seq(Keys) /\ ~(Len(Noticed(pressed)) < QueueSize)
    BY <1>2, <1>4, NoticedIs
  <2>4. Noticed(pressed) \o When(Len(Noticed(pressed)) < QueueSize, key) = Noticed(pressed)
    BY <2>3 DEF When
  <2> QED
    BY <2>1, <2>2, <2>4
<1> QED
  BY <1>3, <1>4
-----------------------------------------------------------------------------
(* The parts of the state. *)

LEMMA CoreIs ==
    ASSUME NEW c \in CoreType
    PROVE  /\ c.keys \in KeysType /\ c.mouse \in MouseType /\ c.touch \in TouchType /\ c.pad \in PadType
           /\ c.closing \in BOOLEAN /\ c.shouldClose \in BOOLEAN
BY DEF CoreType

LEMMA UserIs ==
    ASSUME NEW u \in UserType
    PROVE  /\ u.keys \subseteq Keys /\ u.locked \subseteq Keys /\ u.buttons \subseteq Buttons /\ u.place \in Spots
           /\ u.turned \in Turns /\ u.pad \in UserPad /\ u.pressed \in Seq(Keys)
           /\ u.repeated \subseteq Keys /\ u.read \in Nat /\ u.asksToClose \in BOOLEAN
           /\ u.from \in Spots /\ u.left \in Int
BY DEF UserType

\* What the user does, apart from the bound on it.
LEMMA UserDoes ==
    ASSUME NEW change \in UserType, Does(change)
    PROVE  /\ story.at = "polling" /\ story.kind # "played" /\ UNCHANGED <<list, frames, story>>
           /\ user' \in UserType
           /\ user'.keys = change.keys /\ user'.locked = change.locked /\ user'.buttons = change.buttons
           /\ user'.place = change.place /\ user'.turned = change.turned /\ user'.pad = change.pad
           /\ user'.pressed = change.pressed /\ user'.repeated = change.repeated
           /\ user'.read = change.read /\ user'.asksToClose = change.asksToClose
           /\ user'.from = change.from
<1>1. user' = [change EXCEPT !.left = change.left - 1] /\ change.left - 1 \in Int
  BY UserIs DEF Does
<1>2. PICK left \in Int : left = change.left - 1
  BY <1>1
<1>3. user' = [change EXCEPT !.left = left]
  BY <1>1, <1>2
<1> HIDE <1>1, <1>2
<1>4. /\ user' \in UserType
      /\ user'.keys = change.keys /\ user'.locked = change.locked /\ user'.buttons = change.buttons
      /\ user'.place = change.place /\ user'.turned = change.turned /\ user'.pad = change.pad
      /\ user'.pressed = change.pressed /\ user'.repeated = change.repeated
      /\ user'.read = change.read /\ user'.asksToClose = change.asksToClose
      /\ user'.from = change.from
  BY <1>3 DEF UserType
<1> QED
  BY <1>4 DEF Does

\* What a key's callback makes of the keys.
CalledBack(keys, key, action, locked, r) ==
    /\ r \in KeysType /\ r.previous = keys.previous /\ r.chars = keys.chars
    /\ \A k \in Keys \ {key} : r.current[k] = keys.current[k]
    /\ r.current[key] <=> \/ key \in LockKeys /\ locked
                          \/ action = "press"
                          \/ action = "repeat" /\ keys.current[key]
    /\ r.repeated = IF action = "repeat" THEN keys.repeated \cup {key} ELSE keys.repeated
    /\ r.queue = keys.queue \o When(action = "press" /\ Len(keys.queue) < QueueSize, key)

LEMMA KeyCallbackIs ==
    ASSUME NEW keys \in KeysType, NEW key \in Keys, NEW action \in {"press", "release", "repeat"},
           NEW locked \in BOOLEAN
    PROVE  CalledBack(keys, key, action, locked, KeyCallback(keys, key, action, locked))
<1> DEFINE down == \/ key \in LockKeys /\ locked
                   \/ action = "press"
                   \/ action = "repeat" /\ keys.current[key]
           current == [keys.current EXCEPT ![key] = down]
           repeated == keys.repeated \cup (IF action = "repeat" THEN {key} ELSE {})
           queue == keys.queue \o When(action = "press" /\ Len(keys.queue) < QueueSize, key)
           r == KeyCallback(keys, key, action, locked)
<1>1. /\ keys.current \in [Keys -> BOOLEAN] /\ keys.repeated \subseteq Keys /\ keys.queue \in Seq(Keys)
      /\ keys.previous \in [Keys -> BOOLEAN] /\ keys.chars \in Seq(Keys)
  BY DEF KeysType
<1>2. down \in BOOLEAN
  OBVIOUS
<1>3. r = [keys EXCEPT !.current = current, !.repeated = repeated, !.queue = queue]
  BY DEF KeyCallback, KeysType
<1> HIDE DEF down
<1>4. /\ current \in [Keys -> BOOLEAN] /\ current[key] = down
      /\ \A k \in Keys \ {key} : current[k] = keys.current[k]
  BY <1>1, <1>2
<1>5. repeated \in SUBSET Keys /\ queue \in Seq(Keys)
  BY <1>1 DEF When
<1>6. repeated = IF action = "repeat" THEN keys.repeated \cup {key} ELSE keys.repeated
  OBVIOUS
<1> HIDE DEF current, repeated, queue, r
<1>7. /\ r \in KeysType /\ r.previous = keys.previous /\ r.chars = keys.chars
      /\ r.current = current /\ r.repeated = repeated /\ r.queue = queue
  BY <1>1, <1>3, <1>4, <1>5 DEF KeysType
<1> QED
  BY <1>2, <1>4, <1>6, <1>7 DEF r, queue, down, CalledBack

LEMMA CharCallbackIs ==
    ASSUME NEW keys \in KeysType, NEW key \in Keys
    PROVE  LET r == CharCallback(keys, key)
           IN  /\ r \in KeysType /\ r.previous = keys.previous /\ r.current = keys.current
               /\ r.repeated = keys.repeated /\ r.queue = keys.queue
<1>1. keys.chars \in Seq(Keys)
  BY DEF KeysType
<1> DEFINE chars == IF Len(keys.chars) < QueueSize THEN Append(keys.chars, key) ELSE keys.chars
<1>2. chars \in Seq(Keys)
  BY <1>1
<1>3. CharCallback(keys, key) = [keys EXCEPT !.chars = chars]
  BY DEF CharCallback
<1> HIDE DEF chars
<1> QED
  BY <1>2, <1>3 DEF KeysType

\* What the program is told, by what was and what is.
LEMMA AnswersAre ==
    ASSUME core \in CoreType, NEW was \in Stills, NEW is \in Stills, Was(was), Is(is)
    PROVE  Answers = Told(was, is)
<1>1. /\ was.down \subseteq Keys /\ is.down \subseteq Keys
      /\ was.buttons \subseteq Buttons /\ is.buttons \subseteq Buttons
  BY DEF Stills
<1>2. /\ {k \in Keys : IsKeyPressed(k)} = is.down \ was.down
      /\ {k \in Keys : IsKeyDown(k)} = is.down
      /\ {k \in Keys : IsKeyReleased(k)} = was.down \ is.down
      /\ {k \in Keys : IsKeyUp(k)} = Keys \ is.down
  BY <1>1 DEF Was, Is, IsKeyPressed, IsKeyDown, IsKeyReleased, IsKeyUp
<1>3. ASSUME NEW b \in Buttons
      PROVE  <<IsMouseButtonPressed(b), IsMouseButtonDown(b), IsMouseButtonReleased(b), IsMouseButtonUp(b)>>
               = <<b \in is.buttons \ was.buttons, b \in is.buttons,
                   b \in was.buttons \ is.buttons, b \notin is.buttons>>
  <2>1. /\ core.mouse.current[b] <=> b \in is.buttons
        /\ core.touch.current[b] <=> b \in is.buttons
        /\ core.mouse.previous[b] <=> b \in was.buttons
        /\ core.touch.previous[b] <=> b \in was.buttons
    BY DEF Was, Is
  <2>2. IsMouseButtonPressed(b) <=> b \in is.buttons \ was.buttons
    BY <2>1 DEF IsMouseButtonPressed
  <2>3. IsMouseButtonDown(b) <=> b \in is.buttons
    BY <2>1 DEF IsMouseButtonDown
  <2>4. IsMouseButtonReleased(b) <=> b \in was.buttons \ is.buttons
    BY <2>1 DEF IsMouseButtonReleased
  <2>5. IsMouseButtonUp(b) <=> b \notin is.buttons
    BY <2>1 DEF IsMouseButtonUp
  <2>6. /\ IsMouseButtonPressed(b) \in BOOLEAN /\ IsMouseButtonDown(b) \in BOOLEAN
        /\ IsMouseButtonReleased(b) \in BOOLEAN /\ IsMouseButtonUp(b) \in BOOLEAN
    <3>1. /\ core.mouse.current[b] \in BOOLEAN /\ core.touch.current[b] \in BOOLEAN
          /\ core.mouse.previous[b] \in BOOLEAN /\ core.touch.previous[b] \in BOOLEAN
      BY CoreIs DEF MouseType, TouchType
    <3> QED
      BY <3>1 DEF IsMouseButtonPressed, IsMouseButtonDown, IsMouseButtonReleased, IsMouseButtonUp
  <2>7. /\ IsMouseButtonPressed(b) = (b \in is.buttons \ was.buttons)
        /\ IsMouseButtonDown(b) = (b \in is.buttons)
        /\ IsMouseButtonReleased(b) = (b \in was.buttons \ is.buttons)
        /\ IsMouseButtonUp(b) = (b \notin is.buttons)
    BY <2>2, <2>3, <2>4, <2>5, <2>6
  <2> QED
    BY <2>7, Zenon
<1>4. [b \in Buttons |-> <<IsMouseButtonPressed(b), IsMouseButtonDown(b),
                           IsMouseButtonReleased(b), IsMouseButtonUp(b)>>]
        = [b \in Buttons |-> <<b \in is.buttons \ was.buttons, b \in is.buttons,
                               b \in was.buttons \ is.buttons, b \notin is.buttons>>]
  BY <1>3, Zenon
<1>5. GetMousePosition = is.place /\ GetMouseDelta = [i \in 1..2 |-> is.place[i] - was.place[i]]
  BY DEF Was, Is, GetMousePosition, GetMouseDelta
<1> QED
  BY <1>2, <1>4, <1>5, Zenon DEF Answers, Told
-----------------------------------------------------------------------------
(* Gestures. *)

\* The finger that is lifted ends the gesture; one that moves starts none.
LEMMA GestureEventIs ==
    ASSUME gestures \in GesturesType, story.now \in Nat, NEW position \in Spots,
           NEW action \in {"DOWN", "UP", "MOVE"}, ProcessGestureEvent(action, position)
    PROVE  /\ gestures' \in GesturesType
           /\ action = "UP" => gestures'.current \notin Touching
           /\ action = "MOVE" /\ gestures.current \notin Touching => gestures'.current \notin Touching
<1> DEFINE g == gestures
           now == story.now
<1>1. PICK n \in Nat : n = story.now
  OBVIOUS
<1>2. CASE action = "DOWN"
  <2>1. gestures' = TouchDown(gestures, position, n)
    BY <1>1, <1>2 DEF ProcessGestureEvent
  <2>2. PICK double \in BOOLEAN :
          gestures' = [gestures EXCEPT !.current = IF double THEN "DOUBLETAP" ELSE "TAP",
                          !.tapCounter = IF double THEN 0 ELSE 1,
                          !.downPosition = position, !.upPosition = position,
                          !.eventTime = n, !.startTime = n]
    BY <2>1 DEF TouchDown
  <2> QED
    BY <1>2, <2>2 DEF GesturesType, Gestures, Touching
<1>3. CASE action = "UP"
  <2>1. gestures' = TouchUp(gestures, position, n)
    BY <1>1, <1>3 DEF ProcessGestureEvent
  <2>2. gestures.upPosition \in Spots
    BY DEF GesturesType
  <2>3. \A p, q : SwipeDirection(p, q) \in Swipes
    BY DEF SwipeDirection, Swipes
  <2>4. PICK up \in Spots, current \in {"NONE"} \cup Swipes :
          gestures' = [gestures EXCEPT !.upPosition = up, !.current = current]
    <3> DEFINE up == IF gestures.current \in {"DRAG", "HOLD"} THEN position ELSE gestures.upPosition
               current == IF /\ 25 * rgVector2Distance(gestures.downPosition, up) > Square(n - gestures.startTime)
                             /\ gestures.current # "DRAG"
                            THEN SwipeDirection(gestures.downPosition, up) ELSE "NONE"
    <3>1. up \in Spots
      BY <2>2
    <3>2. current \in {"NONE"} \cup Swipes
      BY <2>3
    <3>3. gestures' = [gestures EXCEPT !.upPosition = up, !.current = current]
      BY <2>1 DEF TouchUp
    <3> HIDE DEF up, current
    <3> QED
      BY <3>1, <3>2, <3>3
  <2>5. current \in Gestures /\ current \notin Touching
    BY <2>4 DEF Gestures, Touching, Swipes
  <2> QED
    BY <1>3, <2>4, <2>5 DEF GesturesType
<1>4. CASE action = "MOVE"
  <2>1. gestures' = TouchMove(gestures, n)
    BY <1>1, <1>4 DEF ProcessGestureEvent
  <2>2. \/ gestures' = gestures
        \/ gestures.current = "HOLD" /\ gestures' = [gestures EXCEPT !.eventTime = n, !.current = "DRAG"]
    BY <2>1 DEF TouchMove
  <2> QED
    BY <1>4, <2>2 DEF GesturesType, Gestures, Touching
<1> QED
  BY <1>2, <1>3, <1>4

LEMMA UpdatedIs ==
    ASSUME NEW g \in GesturesType
    PROVE  /\ UpdateGestures(g) \in GesturesType
           /\ g.current \notin Touching => UpdateGestures(g).current \notin Touching
<1> DEFINE current == CASE g.current \in {"TAP", "DOUBLETAP"} -> "HOLD"
                        [] g.current \in Swipes -> "NONE"
                        [] OTHER -> g.current
<1>1. current \in Gestures /\ (g.current \notin Touching => current \notin Touching)
  <2>1. PICK now \in Gestures : now = g.current
    BY DEF GesturesType
  <2> QED
    BY <2>1 DEF Gestures, Touching, Swipes
<1>2. UpdateGestures(g) = [g EXCEPT !.current = current]
  BY DEF UpdateGestures
<1> HIDE DEF current
<1> QED
  BY <1>1, <1>2 DEF GesturesType

\* What the button's callback does to the two states it keeps of it.
LEMMA ButtonCallbackIs ==
    ASSUME core \in CoreType, NEW b \in Buttons, NEW down \in BOOLEAN,
           core' = [core EXCEPT !.mouse.current[b] = down, !.touch.current[b] = down]
    PROVE  /\ core' \in CoreType
           /\ core'.keys = core.keys /\ core'.pad = core.pad /\ core'.closing = core.closing
           /\ core'.shouldClose = core.shouldClose
           /\ core'.mouse = [core.mouse EXCEPT !.current = [core.mouse.current EXCEPT ![b] = down]]
           /\ core'.touch = [core.touch EXCEPT !.current = [core.touch.current EXCEPT ![b] = down]]
<1> DEFINE mouse == [core.mouse EXCEPT !.current = [core.mouse.current EXCEPT ![b] = down]]
           touch == [core.touch EXCEPT !.current = [core.touch.current EXCEPT ![b] = down]]
<1>1. core' = [core EXCEPT !.mouse = mouse, !.touch = touch]
  BY DEF CoreType, MouseType, TouchType
<1>2. mouse \in MouseType /\ touch \in TouchType
  BY CoreIs DEF MouseType, TouchType
<1> HIDE DEF mouse, touch
<1>3. core' \in CoreType /\ core'.mouse = mouse /\ core'.touch = touch
      /\ core'.keys = core.keys /\ core'.pad = core.pad /\ core'.closing = core.closing
      /\ core'.shouldClose = core.shouldClose
  BY <1>1, <1>2 DEF CoreType
<1> QED
  BY <1>3 DEF mouse, touch
-----------------------------------------------------------------------------
(* What the program sees of what the user does. *)

\* What was found of the gamepad stays found.
LEMMA PadsStay ==
    ASSUME Pads, story' = story, core'.pad = core.pad, user'.pad = user.pad
    PROVE  Pads'
BY DEF Pads, PadFollows, PadAnswers, IsGamepadButtonDown, IsGamepadButtonUp, IsGamepadButtonPressed,
       IsGamepadButtonReleased

\* Only a part of the state that is not the keyboard's changes.
LEMMA KeysStay ==
    ASSUME TypeInv, Queued, Before, story' = story, frames' = frames, core'.keys = core.keys,
           user'.pressed = user.pressed, user'.read = user.read
    PROVE  Queued' /\ Before'
<1>1. Noticed(user.pressed)' = Noticed(user.pressed)
  BY DEF Noticed
<1>2. Queued'
  BY <1>1 DEF Queued
<1>3. Before'
  BY DEF Before
<1> QED
  BY <1>2, <1>3

LEMMA UserTypesFollows ==
    ASSUME TypeInv, Following, UserTypes
    PROVE  TypeInv' /\ Following'
<1>1. PICK key \in Keys, action \in {"press", "release", "repeat"}, locked \in BOOLEAN :
        /\ (action = "press") # (key \in user.keys)
        /\ locked => key \in LockKeys
        /\ Does([user EXCEPT
              !.keys = CASE action = "press" -> @ \cup {key} [] action = "release" -> @ \ {key}
                         [] OTHER -> @,
              !.locked = IF locked THEN @ \cup {key} ELSE @ \ {key},
              !.pressed = @ \o When(action = "press", key),
              !.repeated = IF action = "repeat" THEN @ \cup {key} ELSE @])
        /\ LET keys == KeyCallback(core.keys, key, action, locked)
           IN  core' = [core EXCEPT !.keys = IF action = "release" THEN keys ELSE CharCallback(keys, key)]
        /\ UNCHANGED gestures
  BY DEF UserTypes
<1> DEFINE held == CASE action = "press" -> user.keys \cup {key} [] action = "release" -> user.keys \ {key}
                     [] OTHER -> user.keys
           locks == IF locked THEN user.locked \cup {key} ELSE user.locked \ {key}
           pressed == user.pressed \o When(action = "press", key)
           repeated == IF action = "repeat" THEN user.repeated \cup {key} ELSE user.repeated
           change == [user EXCEPT !.keys = held, !.locked = locks, !.pressed = pressed, !.repeated = repeated]
           called == KeyCallback(core.keys, key, action, locked)
           after == IF action = "release" THEN called ELSE CharCallback(called, key)
<1>2. user \in UserType /\ core \in CoreType
  BY DEF TypeInv
<1>3. /\ user.keys \subseteq Keys /\ user.locked \subseteq Keys /\ user.pressed \in Seq(Keys)
      /\ user.repeated \subseteq Keys
  BY <1>2, UserIs
<1>4. held \in SUBSET Keys /\ locks \in SUBSET Keys /\ pressed \in Seq(Keys) /\ repeated \in SUBSET Keys
  BY <1>3 DEF When
<1>5. Does(change) /\ core' = [core EXCEPT !.keys = after]
  BY <1>1
<1>6. \A k \in Keys \ {key} : k \in held \cup locks <=> k \in user.keys \cup user.locked
  OBVIOUS
<1>7. key \in held \cup locks <=> \/ key \in LockKeys /\ locked
                                  \/ action = "press"
                                  \/ action = "repeat"
  BY <1>1
<1> HIDE DEF held, locks, repeated, change, after
<1>8. /\ change \in UserType
      /\ change.keys = held /\ change.locked = locks /\ change.pressed = pressed /\ change.repeated = repeated
      /\ change.buttons = user.buttons /\ change.place = user.place /\ change.turned = user.turned
      /\ change.pad = user.pad /\ change.read = user.read /\ change.asksToClose = user.asksToClose
      /\ change.from = user.from
  BY <1>2, <1>4 DEF UserType, change
<1>9. /\ story.at = "polling" /\ story.kind # "played" /\ UNCHANGED <<list, frames, story>>
      /\ user' \in UserType
      /\ user'.keys = held /\ user'.locked = locks /\ user'.pressed = pressed /\ user'.repeated = repeated
      /\ user'.buttons = user.buttons /\ user'.place = user.place /\ user'.turned = user.turned
      /\ user'.pad = user.pad /\ user'.read = user.read /\ user'.asksToClose = user.asksToClose
      /\ user'.from = user.from
  BY <1>5, <1>8, UserDoes
<1>10. core.keys \in KeysType
  BY <1>2, CoreIs
<1>11. CalledBack(core.keys, key, action, locked, called)
  BY <1>10, KeyCallbackIs
<1> HIDE DEF called
<1>12. /\ after \in KeysType /\ after.previous = called.previous /\ after.current = called.current
       /\ after.repeated = called.repeated /\ after.queue = called.queue
  BY <1>11, CharCallbackIs DEF after, CalledBack
<1>13. /\ core' \in CoreType /\ core'.keys = after /\ core'.mouse = core.mouse /\ core'.touch = core.touch
       /\ core'.pad = core.pad /\ core'.closing = core.closing /\ core'.shouldClose = core.shouldClose
  BY <1>2, <1>5, <1>12 DEF CoreType
<1>14. TypeInv'
  BY <1>1, <1>9, <1>13 DEF TypeInv
<1>15. Held /\ Queued /\ Before /\ Closing /\ Pads
  BY <1>9 DEF Following
<1>16. Held'
  <2>1. \A k \in Keys : after.current[k] <=> k \in held \cup locks
    <3>1. ASSUME NEW k \in Keys, k # key
          PROVE  after.current[k] <=> k \in held \cup locks
      BY <1>6, <1>11, <1>12, <1>15, <3>1 DEF Held, CalledBack
    <3>2. action = "repeat" => core.keys.current[key]
      BY <1>1, <1>15 DEF Held
    <3>3. after.current[key] <=> key \in held \cup locks
      BY <1>7, <1>11, <1>12, <3>2 DEF CalledBack
    <3> QED
      BY <3>1, <3>3
  <2>2. after.repeated = repeated
    BY <1>11, <1>12, <1>15 DEF Held, repeated, CalledBack
  <2> QED
    BY <1>9, <1>13, <1>15, <2>1, <2>2 DEF Held
<1>17. Queued'
  <2>1. user.read = 0 /\ core.keys.queue = SubSeq(Noticed(user.pressed), 1, Len(Noticed(user.pressed)))
    BY <1>9, <1>15 DEF Queued
  <2>2. Noticed(user.pressed) \in Seq(Keys)
    BY <1>3, NoticedIs
  <2>3. core.keys.queue = Noticed(user.pressed)
    BY <2>1, <2>2
  <2>4. Noticed(pressed) = Noticed(user.pressed) \o When(action = "press" /\ Len(Noticed(user.pressed)) < QueueSize, key)
    <3>1. CASE action = "press"
      <4>1. pressed = user.pressed \o <<key>>
        BY <3>1 DEF When
      <4>2. Noticed(user.pressed \o <<key>>)
              = Noticed(user.pressed) \o When(Len(Noticed(user.pressed)) < QueueSize, key)
        BY <1>3, NoticedMore
      <4> QED
        BY <3>1, <4>1, <4>2 DEF When
    <3>2. CASE action # "press"
      <4>1. pressed = user.pressed
        BY <1>3, <3>2 DEF When
      <4> QED
        BY <2>2, <3>2, <4>1 DEF When
    <3> QED
      BY <3>1, <3>2
  <2>5. after.queue = Noticed(pressed)
    BY <1>11, <1>12, <2>3, <2>4 DEF CalledBack
  <2> HIDE DEF pressed
  <2>6. Noticed(pressed) \in Seq(Keys)
    BY <1>4, NoticedIs
  <2>7. Noticed(pressed) = SubSeq(Noticed(pressed), 1, Len(Noticed(pressed)))
    BY <2>6
  <2>8. Noticed(user.pressed)' = Noticed(pressed)
    BY <1>9 DEF Noticed
  <2>9. user'.read = 0 /\ Len(Noticed(pressed)) \in Nat /\ core'.keys.queue = Noticed(pressed)
    BY <1>9, <1>13, <2>1, <2>5, <2>6
  <2> QED
    BY <2>7, <2>8, <2>9 DEF Queued
<1>18. Before'
  BY <1>9, <1>11, <1>12, <1>13, <1>15 DEF Before, CalledBack
<1>19. Closing'
  BY <1>9, <1>13, <1>15 DEF Closing
<1>20. Pads'
  BY <1>9, <1>13, <1>15, PadsStay
<1> QED
  BY <1>14, <1>16, <1>17, <1>18, <1>19, <1>20 DEF Following

LEMMA UserClicksFollows ==
    ASSUME TypeInv, Following, UserClicks
    PROVE  TypeInv' /\ Following'
<1>1. PICK b \in Buttons, down \in BOOLEAN :
        /\ down <=> b \notin user.buttons
        /\ Does([user EXCEPT !.buttons = IF down THEN user.buttons \cup {b} ELSE user.buttons \ {b}])
        /\ MouseButtonCallback(b, down)
  BY DEF UserClicks
<1> DEFINE buttons == IF down THEN user.buttons \cup {b} ELSE user.buttons \ {b}
           change == [user EXCEPT !.buttons = buttons]
<1>2. user \in UserType /\ core \in CoreType /\ gestures \in GesturesType /\ story.now \in Nat
      /\ core.mouse \in MouseType /\ core.touch \in TouchType
  BY CoreIs DEF TypeInv, StoryType
<1>3. buttons \in SUBSET Buttons
  BY <1>2, UserIs
<1>4. \A x \in Buttons : x \in buttons <=> IF x = b THEN down ELSE x \in user.buttons
  OBVIOUS
<1> HIDE DEF buttons
<1>5. /\ change \in UserType /\ change.buttons = buttons
      /\ change.keys = user.keys /\ change.locked = user.locked /\ change.pressed = user.pressed
      /\ change.repeated = user.repeated /\ change.place = user.place /\ change.turned = user.turned
      /\ change.pad = user.pad /\ change.read = user.read /\ change.asksToClose = user.asksToClose
      /\ change.from = user.from
  BY <1>2, <1>3 DEF UserType
<1>6. Does(change)
  BY <1>1 DEF buttons
<1> HIDE DEF change
<1>7. /\ story.at = "polling" /\ story.kind # "played" /\ UNCHANGED <<list, frames, story>>
      /\ user' \in UserType /\ user'.buttons = buttons
      /\ user'.keys = user.keys /\ user'.locked = user.locked /\ user'.pressed = user.pressed
      /\ user'.repeated = user.repeated /\ user'.place = user.place /\ user'.turned = user.turned
      /\ user'.pad = user.pad /\ user'.read = user.read /\ user'.asksToClose = user.asksToClose
      /\ user'.from = user.from
  BY <1>5, <1>6, UserDoes
<1>8. core' = [core EXCEPT !.mouse.current[b] = down, !.touch.current[b] = down]
  BY <1>1 DEF MouseButtonCallback
<1>9. /\ core' \in CoreType
      /\ core'.keys = core.keys /\ core'.pad = core.pad /\ core'.closing = core.closing
      /\ core'.shouldClose = core.shouldClose
      /\ core'.mouse = [core.mouse EXCEPT !.current = [core.mouse.current EXCEPT ![b] = down]]
      /\ core'.touch = [core.touch EXCEPT !.current = [core.touch.current EXCEPT ![b] = down]]
  BY <1>2, <1>8, ButtonCallbackIs
<1>10. gestures' \in GesturesType
  <2>1. PICK action \in {"DOWN", "UP", "MOVE"} : ProcessGestureEvent(action, core.mouse.position)
    BY <1>1 DEF MouseButtonCallback, GetMousePosition
  <2>2. core.mouse.position \in Spots
    BY <1>2 DEF MouseType
  <2> QED
    BY <1>2, <2>1, <2>2, GestureEventIs
<1>11. TypeInv'
  BY <1>7, <1>9, <1>10 DEF TypeInv
<1>12. Held /\ Queued /\ Before /\ Closing /\ Pads
  BY <1>7 DEF Following
<1>13. /\ core'.mouse.position = core.mouse.position /\ core'.mouse.wheel = core.mouse.wheel
       /\ core'.mouse.previousPosition = core.mouse.previousPosition
       /\ \A x \in Buttons : /\ core'.mouse.current[x] = IF x = b THEN down ELSE core.mouse.current[x]
                             /\ core'.touch.current[x] = IF x = b THEN down ELSE core.touch.current[x]
  BY <1>2, <1>9 DEF MouseType, TouchType
<1>14. Held'
  <2>1. \A x \in Buttons : /\ core'.mouse.current[x] <=> x \in user'.buttons
                           /\ core'.touch.current[x] <=> x \in user'.buttons
    BY <1>4, <1>7, <1>12, <1>13 DEF Held
  <2> QED
    BY <1>7, <1>9, <1>12, <1>13, <2>1 DEF Held
<1>15. Queued' /\ Before'
  BY <1>7, <1>9, <1>12, KeysStay
<1>16. Closing'
  BY <1>7, <1>9, <1>12 DEF Closing
<1>17. Pads'
  BY <1>7, <1>9, <1>12, PadsStay
<1> QED
  BY <1>11, <1>14, <1>15, <1>16, <1>17 DEF Following

LEMMA UserMovesFollows ==
    ASSUME TypeInv, Following, UserMoves
    PROVE  TypeInv' /\ Following'
<1>1. PICK place \in Spots : Does([user EXCEPT !.place = place]) /\ MouseCursorPosCallback(place)
  BY DEF UserMoves, Spots
<1> DEFINE change == [user EXCEPT !.place = place]
           mouse == [core.mouse EXCEPT !.position = place]
           touch == [core.touch EXCEPT !.position = place]
<1>2. user \in UserType /\ core \in CoreType /\ gestures \in GesturesType /\ story.now \in Nat
      /\ core.mouse \in MouseType /\ core.touch \in TouchType
  BY CoreIs DEF TypeInv, StoryType
<1>3. /\ change \in UserType /\ change.place = place
      /\ change.keys = user.keys /\ change.locked = user.locked /\ change.pressed = user.pressed
      /\ change.repeated = user.repeated /\ change.buttons = user.buttons /\ change.turned = user.turned
      /\ change.pad = user.pad /\ change.read = user.read /\ change.asksToClose = user.asksToClose
      /\ change.from = user.from
  BY <1>2 DEF UserType
<1>4. Does(change)
  BY <1>1
<1> HIDE DEF change
<1>5. /\ story.at = "polling" /\ story.kind # "played" /\ UNCHANGED <<list, frames, story>>
      /\ user' \in UserType /\ user'.place = place
      /\ user'.keys = user.keys /\ user'.locked = user.locked /\ user'.pressed = user.pressed
      /\ user'.repeated = user.repeated /\ user'.buttons = user.buttons /\ user'.turned = user.turned
      /\ user'.pad = user.pad /\ user'.read = user.read /\ user'.asksToClose = user.asksToClose
      /\ user'.from = user.from
  BY <1>3, <1>4, UserDoes
<1>6. core' = [core EXCEPT !.mouse = mouse, !.touch = touch]
  BY <1>1, <1>2 DEF MouseCursorPosCallback, CoreType, MouseType, TouchType
<1>7. /\ mouse \in MouseType /\ mouse.current = core.mouse.current /\ mouse.position = place
      /\ mouse.previousPosition = core.mouse.previousPosition /\ mouse.wheel = core.mouse.wheel
      /\ touch \in TouchType /\ touch.current = core.touch.current
  BY <1>2 DEF MouseType, TouchType
<1> HIDE DEF mouse, touch
<1>8. /\ core' \in CoreType /\ core'.mouse = mouse /\ core'.touch = touch
      /\ core'.keys = core.keys /\ core'.pad = core.pad /\ core'.closing = core.closing
      /\ core'.shouldClose = core.shouldClose
  BY <1>2, <1>6, <1>7 DEF CoreType
<1>9. gestures' \in GesturesType
  BY <1>1, <1>2, GestureEventIs DEF MouseCursorPosCallback
<1>10. TypeInv'
  BY <1>5, <1>8, <1>9 DEF TypeInv
<1>11. Held /\ Queued /\ Before /\ Closing /\ Pads
  BY <1>5 DEF Following
<1>12. Held'
  BY <1>5, <1>7, <1>8, <1>11 DEF Held
<1>13. Queued' /\ Before'
  BY <1>5, <1>8, <1>11, KeysStay
<1>14. Closing'
  BY <1>5, <1>8, <1>11 DEF Closing
<1>15. Pads'
  BY <1>5, <1>8, <1>11, PadsStay
<1> QED
  BY <1>10, <1>12, <1>13, <1>14, <1>15 DEF Following

LEMMA UserScrollsFollows ==
    ASSUME TypeInv, Following, UserScrolls
    PROVE  TypeInv' /\ Following'
<1>1. PICK offset \in Turns : Does([user EXCEPT !.turned = offset]) /\ MouseScrollCallback(offset)
                              /\ UNCHANGED gestures
  BY DEF UserScrolls, Turns
<1> DEFINE change == [user EXCEPT !.turned = offset]
           mouse == [core.mouse EXCEPT !.wheel = offset]
<1>2. user \in UserType /\ core \in CoreType /\ core.mouse \in MouseType
  BY CoreIs DEF TypeInv
<1>3. /\ change \in UserType /\ change.turned = offset
      /\ change.keys = user.keys /\ change.locked = user.locked /\ change.pressed = user.pressed
      /\ change.repeated = user.repeated /\ change.buttons = user.buttons /\ change.place = user.place
      /\ change.pad = user.pad /\ change.read = user.read /\ change.asksToClose = user.asksToClose
      /\ change.from = user.from
  BY <1>2 DEF UserType
<1>4. Does(change)
  BY <1>1
<1> HIDE DEF change
<1>5. /\ story.at = "polling" /\ story.kind # "played" /\ UNCHANGED <<list, frames, story>>
      /\ user' \in UserType /\ user'.turned = offset
      /\ user'.keys = user.keys /\ user'.locked = user.locked /\ user'.pressed = user.pressed
      /\ user'.repeated = user.repeated /\ user'.buttons = user.buttons /\ user'.place = user.place
      /\ user'.pad = user.pad /\ user'.read = user.read /\ user'.asksToClose = user.asksToClose
      /\ user'.from = user.from
  BY <1>3, <1>4, UserDoes
<1>6. core' = [core EXCEPT !.mouse = mouse]
  BY <1>1, <1>2 DEF MouseScrollCallback, CoreType, MouseType
<1>7. /\ mouse \in MouseType /\ mouse.current = core.mouse.current /\ mouse.position = core.mouse.position
      /\ mouse.previousPosition = core.mouse.previousPosition /\ mouse.wheel = offset
  BY <1>2 DEF MouseType
<1> HIDE DEF mouse
<1>8. /\ core' \in CoreType /\ core'.mouse = mouse /\ core'.touch = core.touch
      /\ core'.keys = core.keys /\ core'.pad = core.pad /\ core'.closing = core.closing
      /\ core'.shouldClose = core.shouldClose
  BY <1>2, <1>6, <1>7 DEF CoreType
<1>10. TypeInv'
  BY <1>1, <1>5, <1>8 DEF TypeInv
<1>11. Held /\ Queued /\ Before /\ Closing /\ Pads
  BY <1>5 DEF Following
<1>12. Held'
  BY <1>5, <1>7, <1>8, <1>11 DEF Held
<1>13. Queued' /\ Before'
  BY <1>5, <1>8, <1>11, KeysStay
<1>14. Closing'
  BY <1>5, <1>8, <1>11 DEF Closing
<1>15. Pads'
  BY <1>5, <1>8, <1>11, PadsStay
<1> QED
  BY <1>10, <1>12, <1>13, <1>14, <1>15 DEF Following

LEMMA UserClosesFollows ==
    ASSUME TypeInv, Following, UserCloses
    PROVE  TypeInv' /\ Following'
<1> DEFINE change == [user EXCEPT !.asksToClose = TRUE]
<1>2. user \in UserType /\ core \in CoreType
  BY DEF TypeInv
<1>3. /\ change \in UserType /\ change.asksToClose = TRUE
      /\ change.keys = user.keys /\ change.locked = user.locked /\ change.pressed = user.pressed
      /\ change.repeated = user.repeated /\ change.buttons = user.buttons /\ change.place = user.place
      /\ change.pad = user.pad /\ change.read = user.read /\ change.turned = user.turned
      /\ change.from = user.from
  BY <1>2 DEF UserType
<1>4. Does(change)
  BY DEF UserCloses
<1> HIDE DEF change
<1>5. /\ story.at = "polling" /\ story.kind # "played" /\ UNCHANGED <<list, frames, story>>
      /\ user' \in UserType /\ user'.asksToClose = TRUE
      /\ user'.keys = user.keys /\ user'.locked = user.locked /\ user'.pressed = user.pressed
      /\ user'.repeated = user.repeated /\ user'.buttons = user.buttons /\ user'.place = user.place
      /\ user'.pad = user.pad /\ user'.read = user.read /\ user'.turned = user.turned
      /\ user'.from = user.from
  BY <1>3, <1>4, UserDoes
<1>8. /\ core' \in CoreType /\ core'.mouse = core.mouse /\ core'.touch = core.touch
      /\ core'.keys = core.keys /\ core'.pad = core.pad /\ core'.closing = TRUE
      /\ core'.shouldClose = core.shouldClose
  BY <1>2 DEF CoreType, UserCloses
<1>10. TypeInv'
  BY <1>5, <1>8 DEF TypeInv, UserCloses
<1>11. Held /\ Queued /\ Before /\ Closing /\ Pads
  BY <1>5 DEF Following
<1>12. Held'
  BY <1>5, <1>8, <1>11 DEF Held
<1>13. Queued' /\ Before'
  BY <1>5, <1>8, <1>11, KeysStay
<1>14. Closing'
  BY <1>5, <1>8, <1>11 DEF Closing
<1>15. Pads'
  BY <1>5, <1>8, <1>11, PadsStay
<1> QED
  BY <1>10, <1>12, <1>13, <1>14, <1>15 DEF Following

LEMMA UserUsesPadFollows ==
    ASSUME TypeInv, Following, UserUsesPad
    PROVE  TypeInv' /\ Following'
<1>1. user \in UserType /\ user.pad \in UserPad /\ user.left \in Int /\ user.left - 1 \in Int
  BY UserIs DEF TypeInv
<1>2. PICK pad \in UserPad, left \in Int : user' = [user EXCEPT !.left = left, !.pad = pad]
  <2> DEFINE left == user.left - 1
  <2>1. \/ \E down \in SUBSET PadButtons : user' = [user EXCEPT !.left = left, !.pad.down = down]
        \/ user' = [user EXCEPT !.left = left, !.pad.present = ~user.pad.present]
        \/ user' = [user EXCEPT !.left = left, !.pad.mapped = ~user.pad.mapped]
    <3>1. user.pad.down \subseteq PadButtons
      BY <1>1 DEF UserPad
    <3> QED
      BY <3>1 DEF UserUsesPad
  <2>2. left \in Int
    BY <1>1
  <2> HIDE DEF left
  <2>3. \/ \E down \in SUBSET PadButtons :
             user' = [user EXCEPT !.left = left, !.pad = [user.pad EXCEPT !.down = down]]
        \/ user' = [user EXCEPT !.left = left, !.pad = [user.pad EXCEPT !.present = ~user.pad.present]]
        \/ user' = [user EXCEPT !.left = left, !.pad = [user.pad EXCEPT !.mapped = ~user.pad.mapped]]
    BY <1>1, <2>1 DEF UserType, UserPad
  <2>4. /\ \A down \in SUBSET PadButtons : [user.pad EXCEPT !.down = down] \in UserPad
        /\ [user.pad EXCEPT !.present = ~user.pad.present] \in UserPad
        /\ [user.pad EXCEPT !.mapped = ~user.pad.mapped] \in UserPad
    BY <1>1 DEF UserPad
  <2> QED
    BY <2>2, <2>3, <2>4
<1>3. /\ user' \in UserType
      /\ user'.keys = user.keys /\ user'.locked = user.locked /\ user'.pressed = user.pressed
      /\ user'.repeated = user.repeated /\ user'.buttons = user.buttons /\ user'.place = user.place
      /\ user'.read = user.read /\ user'.turned = user.turned /\ user'.asksToClose = user.asksToClose
      /\ user'.from = user.from
  BY <1>1, <1>2 DEF UserType
<1>4. story.at = "frame" /\ UNCHANGED <<core, gestures, list, frames, story>>
  BY DEF UserUsesPad
<1>5. TypeInv'
  BY <1>3, <1>4 DEF TypeInv
<1>6. ASSUME story.kind # "played"
      PROVE  Held' /\ Queued' /\ Before' /\ Closing' /\ Pads'
  <2>1. Held /\ Queued /\ Before /\ Closing /\ Pads
    BY <1>6 DEF Following
  <2>2. Held'
    BY <1>3, <1>4, <2>1 DEF Held
  <2>3. Queued' /\ Before'
    BY <1>3, <1>4, <2>1, KeysStay
  <2>4. Closing'
    BY <1>3, <1>4, <2>1 DEF Closing
  <2>5. Pads'
    BY <1>4 DEF Pads
  <2> QED
    BY <2>2, <2>3, <2>4, <2>5
<1> QED
  BY <1>4, <1>5, <1>6 DEF Following

LEMMA TailOfRest ==
    ASSUME NEW s \in Seq(Keys), NEW r \in Nat, r <= Len(s), SubSeq(s, r + 1, Len(s)) # <<>>
    PROVE  r + 1 <= Len(s) /\ Tail(SubSeq(s, r + 1, Len(s))) = SubSeq(s, r + 2, Len(s))
<1> DEFINE rest == SubSeq(s, r + 1, Len(s))
<1>1. Len(s) \in Nat
  OBVIOUS
<1>2. r # Len(s)
  BY <1>1
<1>3. r + 1 <= Len(s)
  BY <1>1, <1>2
<1>4. rest \in Seq(Keys) /\ Len(rest) = Len(s) - r /\ \A i \in 1..(Len(s) - r) : rest[i] = s[r + i]
  BY <1>1, <1>3
<1>5. SubSeq(s, r + 2, Len(s)) \in Seq(Keys) /\ Len(SubSeq(s, r + 2, Len(s))) = Len(s) - r - 1
      /\ \A i \in 1..(Len(s) - r - 1) : SubSeq(s, r + 2, Len(s))[i] = s[r + 1 + i]
  BY <1>1, <1>3
<1> HIDE DEF rest
<1>6. Tail(rest) \in Seq(Keys) /\ Len(Tail(rest)) = Len(s) - r - 1
      /\ \A i \in 1..(Len(s) - r - 1) : Tail(rest)[i] = rest[i + 1]
  BY <1>1, <1>3, <1>4
<1>7. ASSUME NEW i \in 1..(Len(s) - r - 1)  PROVE Tail(rest)[i] = SubSeq(s, r + 2, Len(s))[i]
  <2>1. i + 1 \in 1..(Len(s) - r) /\ r + (i + 1) = r + 1 + i
    BY <1>1, <1>3
  <2>2. Tail(rest)[i] = rest[i + 1]
    BY <1>6
  <2>3. rest[i + 1] = s[r + 1 + i]
    BY <1>4, <2>1
  <2>4. SubSeq(s, r + 2, Len(s))[i] = s[r + 1 + i]
    BY <1>5
  <2> QED
    BY <2>2, <2>3, <2>4
<1>8. Tail(rest) = SubSeq(s, r + 2, Len(s))
  <2>1. PICK a \in Seq(Keys), b \in Seq(Keys) : a = Tail(rest) /\ b = SubSeq(s, r + 2, Len(s))
    BY <1>5, <1>6
  <2>2. Len(a) = Len(b) /\ \A i \in 1..Len(a) : a[i] = b[i]
    BY <1>5, <1>6, <1>7, <2>1
  <2>3. a = b
    BY <2>2, SeqEqual
  <2> QED
    BY <2>1, <2>3
<1> QED
  BY <1>3, <1>8 DEF rest

LEMMA GetKeyPressedFollows ==
    ASSUME TypeInv, Following, GetKeyPressed
    PROVE  TypeInv' /\ Following'
<1> DEFINE queue == Tail(core.keys.queue)
           keys == [core.keys EXCEPT !.queue = queue]
           read == user.read + 1
<1>1. user \in UserType /\ core \in CoreType /\ core.keys \in KeysType /\ user.read \in Nat
      /\ user.pressed \in Seq(Keys)
  BY CoreIs, UserIs DEF TypeInv
<1>2. /\ story.at = "frame" /\ core.keys.queue # <<>>
      /\ core' = [core EXCEPT !.keys = keys] /\ user' = [user EXCEPT !.read = read]
      /\ UNCHANGED <<gestures, list, frames, story>>
  BY <1>1 DEF GetKeyPressed, CoreType, KeysType
<1>3. queue \in Seq(Keys) /\ read \in Nat
  BY <1>1, <1>2 DEF KeysType
<1> HIDE DEF queue, read
<1>4. /\ keys \in KeysType /\ keys.queue = queue /\ keys.current = core.keys.current
      /\ keys.previous = core.keys.previous /\ keys.repeated = core.keys.repeated
  BY <1>1, <1>3 DEF KeysType
<1> HIDE DEF keys
<1>5. /\ core' \in CoreType /\ core'.keys = keys /\ core'.mouse = core.mouse /\ core'.touch = core.touch
      /\ core'.pad = core.pad /\ core'.closing = core.closing
      /\ core'.shouldClose = core.shouldClose
  BY <1>1, <1>2, <1>4 DEF CoreType
<1>6. /\ user' \in UserType /\ user'.read = read
      /\ user'.keys = user.keys /\ user'.locked = user.locked /\ user'.pressed = user.pressed
      /\ user'.repeated = user.repeated /\ user'.buttons = user.buttons /\ user'.place = user.place
      /\ user'.turned = user.turned /\ user'.asksToClose = user.asksToClose
      /\ user'.from = user.from
  BY <1>1, <1>2, <1>3 DEF UserType
<1>7. TypeInv'
  BY <1>2, <1>5, <1>6 DEF TypeInv
<1>8. ASSUME story.kind # "played"
      PROVE  Held' /\ Queued' /\ Before' /\ Closing' /\ Pads'
  <2>1. Held /\ Queued /\ Before /\ Closing /\ Pads
    BY <1>8 DEF Following
  <2>2. Held'
    BY <1>2, <1>4, <1>5, <1>6, <2>1 DEF Held
  <2>3. Queued'
    <3>1. PICK noticed \in Seq(Keys) : noticed = Noticed(user.pressed)
      BY <1>1, NoticedIs
    <3>2. core.keys.queue = SubSeq(noticed, user.read + 1, Len(noticed)) /\ user.read <= Len(noticed)
      BY <2>1, <3>1 DEF Queued
    <3>3. read <= Len(noticed) /\ queue = SubSeq(noticed, read + 1, Len(noticed))
      <4>1. PICK r \in Nat : r = user.read
        BY <1>1
      <4>2. SubSeq(noticed, r + 1, Len(noticed)) # <<>> /\ r <= Len(noticed)
        BY <1>2, <3>2, <4>1
      <4>3. r + 1 <= Len(noticed) /\ Tail(SubSeq(noticed, r + 1, Len(noticed))) = SubSeq(noticed, r + 2, Len(noticed))
        BY <4>2, TailOfRest
      <4>4. read = r + 1 /\ read + 1 = r + 2
        BY <4>1 DEF read
      <4>5. queue = Tail(SubSeq(noticed, r + 1, Len(noticed)))
        BY <3>2, <4>1 DEF queue
      <4> QED
        BY <4>3, <4>4, <4>5
    <3>4. Noticed(user.pressed)' = noticed
      BY <1>6, <3>1 DEF Noticed
    <3>5. story'.at # "polling"
      BY <1>2
    <3> QED
      BY <1>4, <1>5, <1>6, <3>3, <3>4, <3>5 DEF Queued
  <2>4. Before'
    BY <1>2, <1>4, <1>5, <2>1 DEF Before
  <2>5. Closing'
    BY <1>2, <1>5, <1>6, <2>1 DEF Closing
  <2>6. Pads'
    BY <1>2 DEF Pads
  <2> QED
    BY <2>2, <2>3, <2>4, <2>5, <2>6
<1> QED
  BY <1>2, <1>7, <1>8 DEF Following

LEMMA GetCharPressedFollows ==
    ASSUME TypeInv, Following, GetCharPressed
    PROVE  TypeInv' /\ Following'
<1> DEFINE chars == Tail(core.keys.chars)
           keys == [core.keys EXCEPT !.chars = chars]
<1>1. core \in CoreType /\ core.keys \in KeysType
  BY CoreIs DEF TypeInv
<1>2. /\ story.at = "frame" /\ core.keys.chars # <<>>
      /\ core' = [core EXCEPT !.keys = keys]
      /\ UNCHANGED <<gestures, list, user, frames, story>>
  BY <1>1 DEF GetCharPressed, CoreType, KeysType
<1>3. chars \in Seq(Keys)
  BY <1>1, <1>2 DEF KeysType
<1> HIDE DEF chars
<1>4. /\ keys \in KeysType /\ keys.queue = core.keys.queue /\ keys.current = core.keys.current
      /\ keys.previous = core.keys.previous /\ keys.repeated = core.keys.repeated
  BY <1>1, <1>3 DEF KeysType
<1> HIDE DEF keys
<1>5. /\ core' \in CoreType /\ core'.keys = keys /\ core'.mouse = core.mouse /\ core'.touch = core.touch
      /\ core'.pad = core.pad /\ core'.closing = core.closing
      /\ core'.shouldClose = core.shouldClose
  BY <1>1, <1>2, <1>4 DEF CoreType
<1>6. TypeInv'
  BY <1>2, <1>5 DEF TypeInv
<1>7. ASSUME story.kind # "played"
      PROVE  Held' /\ Queued' /\ Before' /\ Closing' /\ Pads'
  <2>1. Held /\ Queued /\ Before /\ Closing /\ Pads
    BY <1>7 DEF Following
  <2>2. Held'
    BY <1>2, <1>4, <1>5, <2>1 DEF Held
  <2>3. Queued'
    <3>1. Noticed(user.pressed)' = Noticed(user.pressed)
      BY <1>2 DEF Noticed
    <3> QED
      BY <1>2, <1>4, <1>5, <2>1, <3>1 DEF Queued
  <2>4. Before'
    BY <1>2, <1>4, <1>5, <2>1 DEF Before
  <2>5. Closing'
    BY <1>2, <1>5, <2>1 DEF Closing
  <2>6. Pads'
    BY <1>2 DEF Pads
  <2> QED
    BY <2>2, <2>3, <2>4, <2>5, <2>6
<1> QED
  BY <1>2, <1>6, <1>7 DEF Following

LEMMA DisableCursorFollows ==
    ASSUME TypeInv, Following, DisableCursor
    PROVE  TypeInv' /\ Following'
<1> DEFINE mouse == [core.mouse EXCEPT !.position = Middle, !.previousPosition = Middle]
<1>1. user \in UserType /\ core \in CoreType /\ core.mouse \in MouseType /\ Middle \in Spots
  BY CoreIs, InputAssumption DEF TypeInv, Spots
<1>2. /\ story.at = "frame" /\ story.kind = "used"
      /\ core' = [core EXCEPT !.mouse = mouse]
      /\ user' = [user EXCEPT !.place = Middle, !.from = Middle]
      /\ UNCHANGED <<gestures, list, frames, story>>
  BY <1>1 DEF DisableCursor, SetMousePosition, CoreType, MouseType
<1>3. /\ mouse \in MouseType /\ mouse.current = core.mouse.current /\ mouse.wheel = core.mouse.wheel
      /\ mouse.position = Middle /\ mouse.previousPosition = Middle
  BY <1>1 DEF MouseType
<1> HIDE DEF mouse
<1>4. /\ core' \in CoreType /\ core'.keys = core.keys /\ core'.mouse = mouse /\ core'.touch = core.touch
      /\ core'.pad = core.pad /\ core'.closing = core.closing
      /\ core'.shouldClose = core.shouldClose
  BY <1>1, <1>2, <1>3 DEF CoreType
<1>5. /\ user' \in UserType /\ user'.place = Middle /\ user'.from = Middle
      /\ user'.keys = user.keys /\ user'.locked = user.locked /\ user'.pressed = user.pressed
      /\ user'.repeated = user.repeated /\ user'.buttons = user.buttons /\ user'.read = user.read
      /\ user'.turned = user.turned /\ user'.asksToClose = user.asksToClose
  BY <1>1, <1>2 DEF UserType
<1>6. TypeInv'
  BY <1>2, <1>4, <1>5 DEF TypeInv
<1>7. Held /\ Queued /\ Before /\ Closing /\ Pads
  BY <1>2 DEF Following
<1>8. Held'
  BY <1>3, <1>4, <1>5, <1>7 DEF Held
<1>9. Queued' /\ Before'
  BY <1>2, <1>4, <1>5, <1>7, KeysStay
<1>10. Closing'
  BY <1>2, <1>4, <1>5, <1>7 DEF Closing
<1>11. Pads'
  BY <1>2 DEF Pads
<1> QED
  BY <1>6, <1>8, <1>9, <1>10, <1>11 DEF Following
-----------------------------------------------------------------------------
(* What a sequence of sequences, or of a set, holds. *)

LEMMA LeastExists ==
    ASSUME NEW S, S \subseteq Nat, S # {}
    PROVE  \E x \in S : \A y \in S : x <= y
<1> DEFINE R == OpToRel(<, Nat)
<1>1. PICK x \in S : \A y \in S : ~(<<y, x>> \in R)
  BY NatLessThanWellFounded, WFMin, Zenon
<1>2. \A y \in S : ~(y < x)
  BY <1>1 DEF OpToRel
<1> QED
  BY <1>2

LEMMA UpTo ==
    ASSUME NEW n \in Nat, NEW S, 0 \in S, \A i \in 0..(n - 1) : i \in S => i + 1 \in S
    PROVE  \A i \in 0..n : i \in S
<1> DEFINE T == {i \in 0..n : i \notin S}
<1> SUFFICES ASSUME T # {}  PROVE FALSE
  OBVIOUS
<1>0. T \subseteq Nat
  OBVIOUS
<1>1. PICK x \in T : \A i \in T : x <= i
  <2> HIDE DEF T
  <2> QED
    BY <1>0, LeastExists
<1>2. x - 1 \in 0..(n - 1) /\ x - 1 \notin T
  BY <1>1
<1> QED
  BY <1>1, <1>2

In(e, s) == \E j \in DOMAIN s : s[j] = e

LEMMA InBoth ==
    ASSUME NEW E, NEW s \in Seq(E), NEW t \in Seq(E), NEW e
    PROVE  In(e, s \o t) <=> In(e, s) \/ In(e, t)
<1>1. /\ Len(s) \in Nat /\ Len(t) \in Nat /\ DOMAIN s = 1..Len(s) /\ DOMAIN t = 1..Len(t)
      /\ DOMAIN (s \o t) = 1..(Len(s) + Len(t))
  OBVIOUS
<1>2. \A j \in 1..Len(s) : j \in 1..(Len(s) + Len(t)) /\ (s \o t)[j] = s[j]
  OBVIOUS
<1>3. \A j \in 1..Len(t) : Len(s) + j \in 1..(Len(s) + Len(t)) /\ (s \o t)[Len(s) + j] = t[j]
  OBVIOUS
<1>4. \A j \in 1..(Len(s) + Len(t)) : j \in 1..Len(s) \/ \E i \in 1..Len(t) : j = Len(s) + i
  <2>1. TAKE j \in 1..(Len(s) + Len(t))
  <2>2. CASE j <= Len(s)
    BY <1>1, <2>2
  <2>3. CASE ~(j <= Len(s))
    <3>1. j - Len(s) \in 1..Len(t) /\ j = Len(s) + (j - Len(s))
      BY <1>1, <2>3
    <3> QED
      BY <3>1
  <2> QED
    BY <2>2, <2>3
<1> DEFINE st == s \o t
           n == Len(s) + Len(t)
<1> HIDE DEF st, n
<1>5. ASSUME In(e, st)  PROVE In(e, s) \/ In(e, t)
  <2>1. PICK j \in 1..n : st[j] = e
    BY <1>1, <1>5 DEF In, st, n
  <2>2. CASE j \in 1..Len(s)
    BY <1>1, <1>2, <2>1, <2>2 DEF In, st
  <2>3. CASE j \notin 1..Len(s)
    <3>1. PICK i \in 1..Len(t) : j = Len(s) + i
      BY <1>4, <2>1, <2>3 DEF n
    <3> QED
      BY <1>1, <1>3, <2>1, <3>1 DEF In, st
  <2> QED
    BY <2>2, <2>3
<1>6. In(e, s) => In(e, st)
  BY <1>1, <1>2 DEF In, st, n
<1>7. In(e, t) => In(e, st)
  BY <1>1, <1>3 DEF In, st, n
<1> QED
  BY <1>5, <1>6, <1>7 DEF st

\* FlattenSeq puts the first i sequences one behind the other.
Flattens(g, n, T) == g = [i \in 1..n |-> IF i = 1 THEN T[i] ELSE g[i - 1] \o T[i]]

LEMMA FlattensExists ==
    ASSUME NEW E, NEW n \in Nat, NEW T \in [1..n -> Seq(E)]
    PROVE  \E g : Flattens(g, n, T)
<1> DEFINE Solved(g, m) == /\ g \in [1..m -> Seq(E)]
                           /\ \A i \in 1..m : g[i] = IF i = 1 THEN T[i] ELSE g[i - 1] \o T[i]
           S == {m \in 0..n : \E g : Solved(g, m)}
<1>1. 0 \in S
  <2> DEFINE none == [i \in 1..0 |-> <<>>]
  <2>1. Solved(none, 0)
    OBVIOUS
  <2> HIDE DEF none, Solved
  <2> QED
    BY <2>1
<1>2. ASSUME NEW m \in 0..(n - 1), m \in S  PROVE m + 1 \in S
  <2>1. PICK g : Solved(g, m)
    BY <1>2
  <2> DEFINE new == IF m = 0 THEN T[1] ELSE g[m] \o T[m + 1]
             h == [i \in 1..(m + 1) |-> IF i <= m THEN g[i] ELSE new]
  <2>2. new \in Seq(E)
    <3>1. CASE m = 0
      <4>1. 1 \in 1..n
        BY <3>1
      <4> QED
        BY <3>1, <4>1
    <3>2. CASE m # 0
      <4>1. m \in 1..m /\ m + 1 \in 1..n
        BY <3>2
      <4>2. g[m] \in Seq(E) /\ T[m + 1] \in Seq(E)
        BY <2>1, <4>1
      <4> QED
        BY <3>2, <4>2
    <3> QED
      BY <3>1, <3>2
  <2>3. \A i \in 1..(m + 1) : i \in 1..m \/ i = m + 1
    OBVIOUS
  <2>4. h \in [1..(m + 1) -> Seq(E)]
    <3> HIDE DEF new
    <3> QED
      BY <2>1, <2>2, <2>3
  <2>5. ASSUME NEW i \in 1..(m + 1)
        PROVE  h[i] = IF i = 1 THEN T[i] ELSE h[i - 1] \o T[i]
    <3>1. CASE i <= m
      <4>1. h[i] = g[i] /\ (i # 1 => h[i - 1] = g[i - 1]) /\ i \in 1..m
        BY <3>1
      <4> HIDE DEF h
      <4> QED
        BY <2>1, <4>1
    <3>2. CASE ~(i <= m)
      <4>1. i = m + 1 /\ h[i] = new /\ (m # 0 => h[m] = g[m])
        BY <3>2
      <4>2. m = 0 => i = 1
        BY <4>1
      <4>3. m # 0 => i # 1 /\ i - 1 = m
        BY <4>1
      <4> HIDE DEF h
      <4> QED
        BY <4>1, <4>2, <4>3
    <3> QED
      BY <3>1, <3>2
  <2>6. Solved(h, m + 1)
    <3> HIDE DEF h
    <3> QED
      BY <2>4, <2>5
  <2> QED
    <3> HIDE DEF Solved
    <3> QED
      BY <2>6
<1>3. n \in S
  <2> HIDE DEF S
  <2>1. \A i \in 0..n : i \in S
    BY <1>1, <1>2, UpTo
  <2> QED
    BY <2>1
<1>4. PICK g : Solved(g, n)
  BY <1>3
<1>5. Flattens(g, n, T)
  <2>1. g = [i \in 1..n |-> g[i]]
    BY <1>4
  <2>2. [i \in 1..n |-> g[i]] = [i \in 1..n |-> IF i = 1 THEN T[i] ELSE g[i - 1] \o T[i]]
    BY <1>4, Zenon
  <2> QED
    BY <2>1, <2>2, Zenon DEF Flattens
<1> QED
  BY <1>5

LEMMA FlattenIs ==
    ASSUME NEW E, NEW n \in Nat, NEW T \in [1..n -> Seq(E)]
    PROVE  FlattenSeq(T) \in Seq(E) /\ \A e : In(e, FlattenSeq(T)) <=> \E i \in 1..n : In(e, T[i])
<1>1. Len(T) = n
  OBVIOUS
<1>2. CASE n = 0
  <2>1. FlattenSeq(T) = T
    BY <1>1, <1>2 DEF FlattenSeq
  <2>2. T \in Seq(E) /\ DOMAIN T = {} /\ 1..n = {}
    BY <1>2
  <2> QED
    BY <2>1, <2>2 DEF In
<1>3. CASE n # 0
  <2> DEFINE g == CHOOSE f : f = [i \in 1..n |-> IF i = 1 THEN T[i] ELSE f[i - 1] \o T[i]]
  <2>1. FlattenSeq(T) = g[n]
    BY <1>1, <1>3, Zenon DEF FlattenSeq
  <2>2. Flattens(g, n, T)
    BY FlattensExists DEF Flattens
  <2> HIDE DEF g
  <2>3. \A i \in 1..n : g[i] = IF i = 1 THEN T[i] ELSE g[i - 1] \o T[i]
    BY <2>2 DEF Flattens
  <2> DEFINE Good(i) == g[i] \in Seq(E) /\ \A e : In(e, g[i]) <=> \E j \in 1..i : In(e, T[j])
             S == {m \in 0..n : m = 0 \/ Good(m)}
  <2>4. ASSUME NEW m \in 0..(n - 1), m \in S  PROVE m + 1 \in S
    <3>1. CASE m = 0
      <4>1. 1 \in 1..n /\ 1..1 = {1}
        BY <3>1
      <4>2. g[1] = T[1] /\ T[1] \in Seq(E)
        BY <2>3, <4>1
      <4>3. Good(1)
        BY <4>1, <4>2
      <4> QED
        BY <3>1, <4>1, <4>3
    <3>2. CASE m # 0
      <4>1. m + 1 \in 1..n /\ m + 1 # 1 /\ (m + 1) - 1 = m
        BY <3>2
      <4>2. g[m + 1] = g[m] \o T[m + 1] /\ T[m + 1] \in Seq(E)
        BY <2>3, <4>1
      <4>3. g[m] \in Seq(E) /\ \A e : In(e, g[m]) <=> \E j \in 1..m : In(e, T[j])
        BY <2>4, <3>2
      <4>4. \A j : j \in 1..(m + 1) <=> j \in 1..m \/ j = m + 1
        BY <3>2
      <4>5. ASSUME NEW e
            PROVE  In(e, g[m + 1]) <=> \E j \in 1..(m + 1) : In(e, T[j])
        <5>1. In(e, g[m] \o T[m + 1]) <=> In(e, g[m]) \/ In(e, T[m + 1])
          <6>1. PICK s \in Seq(E), t \in Seq(E) : s = g[m] /\ t = T[m + 1]
            BY <4>2, <4>3
          <6>2. In(e, s \o t) <=> In(e, s) \/ In(e, t)
            BY InBoth
          <6> QED
            BY <6>1, <6>2, Zenon
        <5>2. In(e, g[m + 1]) <=> In(e, g[m]) \/ In(e, T[m + 1])
          BY <4>2, <5>1, Zenon
        <5> QED
          BY <4>3, <4>4, <5>2, Zenon
      <4>6. g[m + 1] \in Seq(E)
        BY <4>2, <4>3
      <4>7. Good(m + 1)
        BY <4>5, <4>6, Zenon
      <4> QED
        BY <4>1, <4>7
    <3> QED
      BY <3>1, <3>2
  <2>5. n \in S
    <3>1. 0 \in S
      OBVIOUS
    <3> HIDE DEF S
    <3>2. \A i \in 0..n : i \in S
      BY <2>4, <3>1, UpTo
    <3> QED
      BY <3>2
  <2>6. Good(n)
    BY <1>3, <2>5
  <2> QED
    BY <2>1, <2>6, Zenon
<1> QED
  BY <1>2, <1>3

LEMMA SetToSeqIs ==
    ASSUME NEW S, IsFiniteSet(S)
    PROVE  /\ Cardinality(S) \in Nat /\ SetToSeq(S) \in [1..Cardinality(S) -> S]
           /\ \A x \in S : \E i \in 1..Cardinality(S) : SetToSeq(S)[i] = x
<1> DEFINE n == Cardinality(S)
<1>1. n \in Nat /\ ExistsBijection(1..n, S)
  BY FS_CardinalityType
<1>2. \E f \in [1..n -> S] : IsInjective(f)
  BY <1>1 DEF ExistsBijection, Bijection, Injection
<1>3. SetToSeq(S) \in [1..n -> S] /\ IsInjective(SetToSeq(S))
  BY <1>2, Zenon DEF SetToSeq
<1>4. IsFiniteSet(1..n) /\ Cardinality(1..n) = n
  BY <1>1, FS_Interval
<1>5. SetToSeq(S) \in Injection(1..n, S)
  BY <1>3 DEF Injection
<1>6. SetToSeq(S) \in Surjection(1..n, S)
  BY <1>4, <1>5, FS_Injection
<1> QED
  BY <1>1, <1>3, <1>6 DEF Surjection
-----------------------------------------------------------------------------
(* What is recorded of a frame. *)

LEMMA WhenIs ==
    ASSUME NEW E, NEW condition \in BOOLEAN, NEW event, condition => event \in E
    PROVE  /\ When(condition, event) \in Seq(E)
           /\ \A e : In(e, When(condition, event)) <=> condition /\ e = event
<1>1. CASE condition
  <2>1. When(condition, event) = <<event>> /\ event \in E
    BY <1>1 DEF When
  <2>2. <<event>> \in Seq(E) /\ DOMAIN <<event>> = {1} /\ <<event>>[1] = event
    BY <2>1
  <2> QED
    BY <1>1, <2>1, <2>2 DEF In
<1>2. CASE ~condition
  <2>1. When(condition, event) = <<>>
    BY <1>2 DEF When
  <2> QED
    BY <1>2, <2>1 DEF In
<1> QED
  BY <1>1, <1>2

\* A way up and every way down.
Changed(up, down, states, e) ==
    \E b \in DOMAIN states.current :
        \/ e = Event(up, b) /\ states.previous[b] /\ ~states.current[b]
        \/ e = Event(down, b) /\ states.current[b]

LEMMA ChangesAre ==
    ASSUME NEW E, NEW K, IsFiniteSet(K), NEW states,
           states.current \in [K -> BOOLEAN], states.previous \in [K -> BOOLEAN],
           NEW up, NEW down, \A b \in K : Event(up, b) \in E /\ Event(down, b) \in E
    PROVE  /\ Changes(up, down, states) \in Seq(E)
           /\ \A e : In(e, Changes(up, down, states)) <=> Changed(up, down, states, e)
<1> DEFINE n == Cardinality(K)
           s == SetToSeq(K)
           Of(b) == When(states.previous[b] /\ ~states.current[b], Event(up, b))
                      \o When(states.current[b], Event(down, b))
           T == [i \in DOMAIN s |-> Of(s[i])]
<1>1. /\ n \in Nat /\ s \in [1..n -> K] /\ DOMAIN s = 1..n
      /\ \A b \in K : \E i \in 1..n : s[i] = b
  BY SetToSeqIs
<1>2. DOMAIN states.current = K
  OBVIOUS
<1>3. Changes(up, down, states) = FlattenSeq(T)
  BY <1>2, Zenon DEF Changes
<1>4. ASSUME NEW b \in K
      PROVE  /\ Of(b) \in Seq(E)
             /\ \A e : In(e, Of(b)) <=> \/ e = Event(up, b) /\ states.previous[b] /\ ~states.current[b]
                                        \/ e = Event(down, b) /\ states.current[b]
  <2> DEFINE wasDown == states.previous[b] /\ ~states.current[b]
             isDown == states.current[b]
             u == When(wasDown, Event(up, b))
             d == When(isDown, Event(down, b))
  <2>1. wasDown \in BOOLEAN /\ isDown \in BOOLEAN
    OBVIOUS
  <2> HIDE DEF wasDown, isDown
  <2>2. u \in Seq(E) /\ \A e : In(e, u) <=> wasDown /\ e = Event(up, b)
    <3>1. PICK event \in E : event = Event(up, b)
      OBVIOUS
    <3>2. /\ When(wasDown, event) \in Seq(E)
          /\ \A e : In(e, When(wasDown, event)) <=> wasDown /\ e = event
      BY <2>1, WhenIs
    <3> QED
      BY <3>1, <3>2, Zenon
  <2>3. d \in Seq(E) /\ \A e : In(e, d) <=> isDown /\ e = Event(down, b)
    <3>1. PICK event \in E : event = Event(down, b)
      OBVIOUS
    <3>2. /\ When(isDown, event) \in Seq(E)
          /\ \A e : In(e, When(isDown, event)) <=> isDown /\ e = event
      BY <2>1, WhenIs
    <3> QED
      BY <3>1, <3>2, Zenon
  <2> HIDE DEF u, d
  <2>4. u \o d \in Seq(E) /\ \A e : In(e, u \o d) <=> In(e, u) \/ In(e, d)
    BY <2>2, <2>3, InBoth
  <2>5. Of(b) = u \o d
    BY Zenon DEF u, d, wasDown, isDown
  <2> HIDE DEF Of
  <2>6. /\ Of(b) \in Seq(E)
        /\ \A e : In(e, Of(b)) <=> \/ wasDown /\ e = Event(up, b)
                                   \/ isDown /\ e = Event(down, b)
    BY <2>2, <2>3, <2>4, <2>5, Zenon
  <2>7. wasDown <=> states.previous[b] /\ ~states.current[b]
    BY DEF wasDown
  <2>8. isDown <=> states.current[b]
    BY DEF isDown
  <2> QED
    BY <2>6, <2>7, <2>8, Zenon
<1> HIDE DEF s, n, Of
<1>5. T \in [1..n -> Seq(E)] /\ \A i \in 1..n : T[i] = Of(s[i]) /\ s[i] \in K
  BY <1>1, <1>4
<1>6. ASSUME NEW e
      PROVE  (\E i \in 1..n : In(e, T[i])) <=> Changed(up, down, states, e)
  <2>1. (\E i \in 1..n : In(e, T[i])) <=> \E b \in K : In(e, Of(b))
    <3>1. ASSUME NEW i \in 1..n, In(e, T[i])  PROVE \E b \in K : In(e, Of(b))
      BY <1>5, <3>1, Zenon
    <3>2. ASSUME NEW b \in K, In(e, Of(b))  PROVE \E i \in 1..n : In(e, T[i])
      <4>1. PICK i \in 1..n : s[i] = b
        BY <1>1
      <4> QED
        BY <1>5, <3>2, <4>1, Zenon
    <3> QED
      BY <3>1, <3>2
  <2> QED
    BY <1>2, <1>4, <2>1 DEF Changed
<1> HIDE DEF T
<1>7. FlattenSeq(T) \in Seq(E) /\ \A e : In(e, FlattenSeq(T)) <=> \E i \in 1..n : In(e, T[i])
  BY <1>1, <1>5, FlattenIs
<1> QED
  BY <1>3, <1>6, <1>7, Zenon

\* The parts of what is recorded.
KeyChanges    == Changes("KEY_UP", "KEY_DOWN", core.keys)
ButtonChanges == Changes("MOUSE_BUTTON_UP", "MOUSE_BUTTON_DOWN", core.mouse)
MouseMove     == When(core.mouse.position # core.mouse.previousPosition,
                      Event("MOUSE_POSITION", core.mouse.position))
WheelTurn     == When(core.mouse.wheel # core.mouse.previousWheel,
                      Event("MOUSE_WHEEL_MOTION", core.mouse.wheel))
TouchChanges  == Changes("TOUCH_UP", "TOUCH_DOWN", core.touch)
TouchPlace    == When(core.touch.position # Origin, Event("TOUCH_POSITION", core.touch.position))
PadChanges    == Changes("GAMEPAD_BUTTON_UP", "GAMEPAD_BUTTON_DOWN", core.pad)
GestureSeen   == When(gestures.current # "NONE", Event("GESTURE", gestures.current))

LEMMA PartsAre ==
    ASSUME TypeInv
    PROVE  /\ KeyChanges \in Seq(Events) /\ ButtonChanges \in Seq(Events) /\ MouseMove \in Seq(Events)
           /\ WheelTurn \in Seq(Events) /\ TouchChanges \in Seq(Events) /\ TouchPlace \in Seq(Events)
           /\ PadChanges \in Seq(Events) /\ GestureSeen \in Seq(Events)
           /\ \A e : /\ In(e, KeyChanges) <=> Changed("KEY_UP", "KEY_DOWN", core.keys, e)
                     /\ In(e, ButtonChanges) <=> Changed("MOUSE_BUTTON_UP", "MOUSE_BUTTON_DOWN", core.mouse, e)
                     /\ In(e, MouseMove) <=> /\ core.mouse.position # core.mouse.previousPosition
                                             /\ e = Event("MOUSE_POSITION", core.mouse.position)
                     /\ In(e, WheelTurn) <=> /\ core.mouse.wheel # core.mouse.previousWheel
                                             /\ e = Event("MOUSE_WHEEL_MOTION", core.mouse.wheel)
                     /\ In(e, TouchChanges) <=> Changed("TOUCH_UP", "TOUCH_DOWN", core.touch, e)
                     /\ In(e, TouchPlace) <=> /\ core.touch.position # Origin
                                              /\ e = Event("TOUCH_POSITION", core.touch.position)
                     /\ In(e, PadChanges) <=> Changed("GAMEPAD_BUTTON_UP", "GAMEPAD_BUTTON_DOWN", core.pad, e)
                     /\ In(e, GestureSeen) <=> /\ gestures.current # "NONE"
                                               /\ e = Event("GESTURE", gestures.current)
<1>1. /\ core.keys \in KeysType /\ core.mouse \in MouseType /\ core.touch \in TouchType /\ core.pad \in PadType
      /\ story.frame \in Nat /\ gestures.current \in Gestures
  BY CoreIs DEF TypeInv, StoryType, GesturesType
<1>2. /\ \A k \in Keys : Event("KEY_UP", k) \in Events /\ Event("KEY_DOWN", k) \in Events
      /\ \A b \in Buttons : /\ Event("MOUSE_BUTTON_UP", b) \in Events /\ Event("MOUSE_BUTTON_DOWN", b) \in Events
                            /\ Event("TOUCH_UP", b) \in Events /\ Event("TOUCH_DOWN", b) \in Events
      /\ \A p \in Spots : Event("MOUSE_POSITION", p) \in Events /\ Event("TOUCH_POSITION", p) \in Events
      /\ \A t \in Turns : Event("MOUSE_WHEEL_MOTION", t) \in Events
      /\ \A b \in PadButtons : /\ Event("GAMEPAD_BUTTON_UP", b) \in Events
                               /\ Event("GAMEPAD_BUTTON_DOWN", b) \in Events
      /\ \A g \in Gestures : Event("GESTURE", g) \in Events
  <2>1. /\ \A k \in Keys : Event("KEY_UP", k) \in KeyEvents /\ Event("KEY_DOWN", k) \in KeyEvents
        /\ \A b \in Buttons : /\ Event("MOUSE_BUTTON_UP", b) \in ButtonEvents
                              /\ Event("MOUSE_BUTTON_DOWN", b) \in ButtonEvents
                              /\ Event("TOUCH_UP", b) \in ButtonEvents /\ Event("TOUCH_DOWN", b) \in ButtonEvents
    BY <1>1 DEF Event, KeyEvents, ButtonEvents
  <2>2. /\ \A p \in Spots : Event("MOUSE_POSITION", p) \in PlaceEvents /\ Event("TOUCH_POSITION", p) \in PlaceEvents
        /\ \A t \in Turns : Event("MOUSE_WHEEL_MOTION", t) \in WheelEvents
        /\ \A b \in PadButtons : /\ Event("GAMEPAD_BUTTON_UP", b) \in PadEvents
                                 /\ Event("GAMEPAD_BUTTON_DOWN", b) \in PadEvents
        /\ \A g \in Gestures : Event("GESTURE", g) \in GestureEvents
    BY <1>1 DEF Event, PlaceEvents, WheelEvents, PadEvents, GestureEvents
  <2> QED
    BY <2>1, <2>2 DEF Events
<1>3. IsFiniteSet(Keys) /\ IsFiniteSet(Buttons) /\ IsFiniteSet(PadButtons)
  BY InputAssumption
<1>4. /\ core.keys.current \in [Keys -> BOOLEAN] /\ core.keys.previous \in [Keys -> BOOLEAN]
      /\ core.mouse.current \in [Buttons -> BOOLEAN] /\ core.mouse.previous \in [Buttons -> BOOLEAN]
      /\ core.touch.current \in [Buttons -> BOOLEAN] /\ core.touch.previous \in [Buttons -> BOOLEAN]
      /\ core.pad.current \in [PadButtons -> BOOLEAN] /\ core.pad.previous \in [PadButtons -> BOOLEAN]
      /\ core.mouse.position \in Spots /\ core.mouse.wheel \in Turns /\ core.touch.position \in Spots
  BY <1>1 DEF KeysType, MouseType, TouchType, PadType
<1>11. /\ KeyChanges \in Seq(Events)
       /\ \A e : In(e, KeyChanges) <=> Changed("KEY_UP", "KEY_DOWN", core.keys, e)
  <2>1. PICK up, down, states : up = "KEY_UP" /\ down = "KEY_DOWN" /\ states = core.keys
    OBVIOUS
  <2>2. /\ Changes(up, down, states) \in Seq(Events)
        /\ \A e : In(e, Changes(up, down, states)) <=> Changed(up, down, states, e)
    BY <1>2, <1>3, <1>4, <2>1, ChangesAre
  <2>3. KeyChanges = Changes(up, down, states)
    BY <2>1 DEF KeyChanges
  <2> QED
    BY <2>1, <2>2, <2>3, Zenon
<1>12. /\ ButtonChanges \in Seq(Events)
       /\ \A e : In(e, ButtonChanges) <=> Changed("MOUSE_BUTTON_UP", "MOUSE_BUTTON_DOWN", core.mouse, e)
  <2>1. PICK up, down, states : up = "MOUSE_BUTTON_UP" /\ down = "MOUSE_BUTTON_DOWN" /\ states = core.mouse
    OBVIOUS
  <2>2. /\ Changes(up, down, states) \in Seq(Events)
        /\ \A e : In(e, Changes(up, down, states)) <=> Changed(up, down, states, e)
    BY <1>2, <1>3, <1>4, <2>1, ChangesAre
  <2>3. ButtonChanges = Changes(up, down, states)
    BY <2>1 DEF ButtonChanges
  <2> QED
    BY <2>1, <2>2, <2>3, Zenon
<1>15. /\ TouchChanges \in Seq(Events)
       /\ \A e : In(e, TouchChanges) <=> Changed("TOUCH_UP", "TOUCH_DOWN", core.touch, e)
  <2>1. PICK up, down, states : up = "TOUCH_UP" /\ down = "TOUCH_DOWN" /\ states = core.touch
    OBVIOUS
  <2>2. /\ Changes(up, down, states) \in Seq(Events)
        /\ \A e : In(e, Changes(up, down, states)) <=> Changed(up, down, states, e)
    BY <1>2, <1>3, <1>4, <2>1, ChangesAre
  <2>3. TouchChanges = Changes(up, down, states)
    BY <2>1 DEF TouchChanges
  <2> QED
    BY <2>1, <2>2, <2>3, Zenon
<1>17. /\ PadChanges \in Seq(Events)
       /\ \A e : In(e, PadChanges) <=> Changed("GAMEPAD_BUTTON_UP", "GAMEPAD_BUTTON_DOWN", core.pad, e)
  <2>1. PICK up, down, states : up = "GAMEPAD_BUTTON_UP" /\ down = "GAMEPAD_BUTTON_DOWN" /\ states = core.pad
    OBVIOUS
  <2>2. /\ Changes(up, down, states) \in Seq(Events)
        /\ \A e : In(e, Changes(up, down, states)) <=> Changed(up, down, states, e)
    BY <1>2, <1>3, <1>4, <2>1, ChangesAre
  <2>3. PadChanges = Changes(up, down, states)
    BY <2>1 DEF PadChanges
  <2> QED
    BY <2>1, <2>2, <2>3, Zenon
<1>13. /\ MouseMove \in Seq(Events)
       /\ \A e : In(e, MouseMove) <=> /\ core.mouse.position # core.mouse.previousPosition
                                      /\ e = Event("MOUSE_POSITION", core.mouse.position)
  <2>1. PICK condition \in BOOLEAN, event \in Events :
          /\ condition <=> core.mouse.position # core.mouse.previousPosition
          /\ event = Event("MOUSE_POSITION", core.mouse.position)
    BY <1>2, <1>4
  <2>2. /\ When(condition, event) \in Seq(Events) /\ \A e : In(e, When(condition, event)) <=> condition /\ e = event
    BY WhenIs
  <2>3. MouseMove = When(condition, event)
    BY <2>1 DEF MouseMove, When
  <2> QED
    BY <2>1, <2>2, <2>3, Zenon
<1>14. /\ WheelTurn \in Seq(Events)
       /\ \A e : In(e, WheelTurn) <=> /\ core.mouse.wheel # core.mouse.previousWheel
                                      /\ e = Event("MOUSE_WHEEL_MOTION", core.mouse.wheel)
  <2>1. PICK condition \in BOOLEAN, event \in Events :
          /\ condition <=> core.mouse.wheel # core.mouse.previousWheel
          /\ event = Event("MOUSE_WHEEL_MOTION", core.mouse.wheel)
    BY <1>2, <1>4
  <2>2. /\ When(condition, event) \in Seq(Events) /\ \A e : In(e, When(condition, event)) <=> condition /\ e = event
    BY WhenIs
  <2>3. WheelTurn = When(condition, event)
    BY <2>1 DEF WheelTurn, When
  <2> QED
    BY <2>1, <2>2, <2>3, Zenon
<1>16. /\ TouchPlace \in Seq(Events)
       /\ \A e : In(e, TouchPlace) <=> /\ core.touch.position # Origin
                                       /\ e = Event("TOUCH_POSITION", core.touch.position)
  <2>1. PICK condition \in BOOLEAN, event \in Events :
          /\ condition <=> core.touch.position # Origin
          /\ event = Event("TOUCH_POSITION", core.touch.position)
    BY <1>2, <1>4
  <2>2. /\ When(condition, event) \in Seq(Events) /\ \A e : In(e, When(condition, event)) <=> condition /\ e = event
    BY WhenIs
  <2>3. TouchPlace = When(condition, event)
    BY <2>1 DEF TouchPlace, When
  <2> QED
    BY <2>1, <2>2, <2>3, Zenon
<1>18. /\ GestureSeen \in Seq(Events)
       /\ \A e : In(e, GestureSeen) <=> /\ gestures.current # "NONE"
                                        /\ e = Event("GESTURE", gestures.current)
  <2>1. PICK condition \in BOOLEAN, event \in Events :
          /\ condition <=> gestures.current # "NONE"
          /\ event = Event("GESTURE", gestures.current)
    BY <1>1, <1>2
  <2>2. /\ When(condition, event) \in Seq(Events) /\ \A e : In(e, When(condition, event)) <=> condition /\ e = event
    BY WhenIs
  <2>3. GestureSeen = When(condition, event)
    BY <2>1 DEF GestureSeen, When
  <2> QED
    BY <2>1, <2>2, <2>3, Zenon
<1> QED
  BY <1>11, <1>12, <1>13, <1>14, <1>15, <1>16, <1>17, <1>18, Zenon

\* All that there is to record of this frame.
AllOf ==
    KeyChanges \o ButtonChanges \o MouseMove \o WheelTurn \o TouchChanges \o TouchPlace \o PadChanges
      \o GestureSeen

LEMMA AllOfIs ==
    ASSUME TypeInv
    PROVE  /\ AllOf \in Seq(Events)
           /\ \A e : In(e, AllOf) <=> \/ In(e, KeyChanges) \/ In(e, ButtonChanges) \/ In(e, MouseMove)
                                      \/ In(e, WheelTurn) \/ In(e, TouchChanges) \/ In(e, TouchPlace)
                                      \/ In(e, PadChanges) \/ In(e, GestureSeen)
<1>1. PICK p1 \in Seq(Events), p2 \in Seq(Events), p3 \in Seq(Events), p4 \in Seq(Events),
           p5 \in Seq(Events), p6 \in Seq(Events), p7 \in Seq(Events), p8 \in Seq(Events) :
        /\ p1 = KeyChanges /\ p2 = ButtonChanges /\ p3 = MouseMove /\ p4 = WheelTurn
        /\ p5 = TouchChanges /\ p6 = TouchPlace /\ p7 = PadChanges /\ p8 = GestureSeen
  BY PartsAre
<1> DEFINE q2 == p1 \o p2
           q3 == q2 \o p3
           q4 == q3 \o p4
           q5 == q4 \o p5
           q6 == q5 \o p6
           q7 == q6 \o p7
           q8 == q7 \o p8
<1>0. AllOf = q8
  BY <1>1, Zenon DEF AllOf
<1>2. q2 \in Seq(Events) /\ \A e : In(e, q2) <=> In(e, p1) \/ In(e, p2)
  BY InBoth
<1> HIDE DEF q2
<1>3. q3 \in Seq(Events) /\ \A e : In(e, q3) <=> In(e, q2) \/ In(e, p3)
  BY <1>2, InBoth
<1> HIDE DEF q3
<1>4. q4 \in Seq(Events) /\ \A e : In(e, q4) <=> In(e, q3) \/ In(e, p4)
  BY <1>3, InBoth
<1> HIDE DEF q4
<1>5. q5 \in Seq(Events) /\ \A e : In(e, q5) <=> In(e, q4) \/ In(e, p5)
  BY <1>4, InBoth
<1> HIDE DEF q5
<1>6. q6 \in Seq(Events) /\ \A e : In(e, q6) <=> In(e, q5) \/ In(e, p6)
  BY <1>5, InBoth
<1> HIDE DEF q6
<1>7. q7 \in Seq(Events) /\ \A e : In(e, q7) <=> In(e, q6) \/ In(e, p7)
  BY <1>6, InBoth
<1> HIDE DEF q7
<1>8. q8 \in Seq(Events) /\ \A e : In(e, q8) <=> In(e, q7) \/ In(e, p8)
  BY <1>7, InBoth
<1> HIDE DEF q8
<1>10. \A e : In(e, q8) <=> \/ In(e, p1) \/ In(e, p2) \/ In(e, p3) \/ In(e, p4)
                            \/ In(e, p5) \/ In(e, p6) \/ In(e, p7) \/ In(e, p8)
  BY <1>2, <1>3, <1>4, <1>5, <1>6, <1>7, <1>8, Zenon
<1> QED
  BY <1>0, <1>1, <1>8, <1>10, Zenon

\* What of it there is to find.
LEMMA AllNoted ==
    ASSUME TypeInv
    PROVE  /\ \A e : In(e, AllOf) => e.frame = story.frame
           /\ \A k \in Keys :
                /\ In(Event("KEY_DOWN", k), AllOf) <=> core.keys.current[k]
                /\ In(Event("KEY_UP", k), AllOf) <=> core.keys.previous[k] /\ ~core.keys.current[k]
           /\ \A b \in Buttons :
                /\ In(Event("MOUSE_BUTTON_DOWN", b), AllOf) <=> core.mouse.current[b]
                /\ In(Event("MOUSE_BUTTON_UP", b), AllOf) <=> core.mouse.previous[b] /\ ~core.mouse.current[b]
                /\ In(Event("TOUCH_DOWN", b), AllOf) <=> core.touch.current[b]
                /\ In(Event("TOUCH_UP", b), AllOf) <=> core.touch.previous[b] /\ ~core.touch.current[b]
           /\ \A p \in Spots :
                In(Event("MOUSE_POSITION", p), AllOf) <=> /\ core.mouse.position # core.mouse.previousPosition
                                                          /\ p = core.mouse.position
<1>1. \A e : In(e, AllOf) <=>
        \/ Changed("KEY_UP", "KEY_DOWN", core.keys, e)
        \/ Changed("MOUSE_BUTTON_UP", "MOUSE_BUTTON_DOWN", core.mouse, e)
        \/ core.mouse.position # core.mouse.previousPosition /\ e = Event("MOUSE_POSITION", core.mouse.position)
        \/ core.mouse.wheel # core.mouse.previousWheel /\ e = Event("MOUSE_WHEEL_MOTION", core.mouse.wheel)
        \/ Changed("TOUCH_UP", "TOUCH_DOWN", core.touch, e)
        \/ core.touch.position # Origin /\ e = Event("TOUCH_POSITION", core.touch.position)
        \/ Changed("GAMEPAD_BUTTON_UP", "GAMEPAD_BUTTON_DOWN", core.pad, e)
        \/ gestures.current # "NONE" /\ e = Event("GESTURE", gestures.current)
  BY AllOfIs, PartsAre, Zenon
<1>2. /\ DOMAIN core.keys.current = Keys /\ DOMAIN core.mouse.current = Buttons
      /\ DOMAIN core.touch.current = Buttons
  BY CoreIs DEF TypeInv, KeysType, MouseType, TouchType
<1>3. /\ \A up, down, states, e : Changed(up, down, states, e) => e.frame = story.frame /\ e.type \in {up, down}
      /\ \A type, id : Event(type, id).frame = story.frame /\ Event(type, id).type = type
      /\ \A type, id1, id2 : Event(type, id1) = Event(type, id2) => id1 = id2
  BY DEF Changed, Event
<1>4. /\ \A k \in Keys : /\ Changed("KEY_UP", "KEY_DOWN", core.keys, Event("KEY_DOWN", k)) <=> core.keys.current[k]
                         /\ Changed("KEY_UP", "KEY_DOWN", core.keys, Event("KEY_UP", k))
                              <=> core.keys.previous[k] /\ ~core.keys.current[k]
  BY <1>2, <1>3 DEF Changed
<1>5. \A b \in Buttons :
        /\ Changed("MOUSE_BUTTON_UP", "MOUSE_BUTTON_DOWN", core.mouse, Event("MOUSE_BUTTON_DOWN", b))
             <=> core.mouse.current[b]
        /\ Changed("MOUSE_BUTTON_UP", "MOUSE_BUTTON_DOWN", core.mouse, Event("MOUSE_BUTTON_UP", b))
             <=> core.mouse.previous[b] /\ ~core.mouse.current[b]
        /\ Changed("TOUCH_UP", "TOUCH_DOWN", core.touch, Event("TOUCH_DOWN", b)) <=> core.touch.current[b]
        /\ Changed("TOUCH_UP", "TOUCH_DOWN", core.touch, Event("TOUCH_UP", b))
             <=> core.touch.previous[b] /\ ~core.touch.current[b]
  BY <1>2, <1>3 DEF Changed
<1>6. \A e : In(e, AllOf) => e.frame = story.frame
  BY <1>1, <1>3
<1>7. ASSUME NEW k \in Keys
      PROVE  /\ In(Event("KEY_DOWN", k), AllOf) <=> core.keys.current[k]
             /\ In(Event("KEY_UP", k), AllOf) <=> core.keys.previous[k] /\ ~core.keys.current[k]
  <2>1. \A type \in {"KEY_DOWN", "KEY_UP"} :
          In(Event(type, k), AllOf) <=> Changed("KEY_UP", "KEY_DOWN", core.keys, Event(type, k))
    BY <1>1, <1>3
  <2> QED
    BY <1>4, <2>1
<1>8. ASSUME NEW b \in Buttons
      PROVE  /\ In(Event("MOUSE_BUTTON_DOWN", b), AllOf) <=> core.mouse.current[b]
             /\ In(Event("MOUSE_BUTTON_UP", b), AllOf) <=> core.mouse.previous[b] /\ ~core.mouse.current[b]
             /\ In(Event("TOUCH_DOWN", b), AllOf) <=> core.touch.current[b]
             /\ In(Event("TOUCH_UP", b), AllOf) <=> core.touch.previous[b] /\ ~core.touch.current[b]
  <2>1. \A type \in {"MOUSE_BUTTON_DOWN", "MOUSE_BUTTON_UP"} :
          In(Event(type, b), AllOf)
            <=> Changed("MOUSE_BUTTON_UP", "MOUSE_BUTTON_DOWN", core.mouse, Event(type, b))
    BY <1>1, <1>3
  <2>2. \A type \in {"TOUCH_DOWN", "TOUCH_UP"} :
          In(Event(type, b), AllOf) <=> Changed("TOUCH_UP", "TOUCH_DOWN", core.touch, Event(type, b))
    BY <1>1, <1>3
  <2> QED
    BY <1>5, <2>1, <2>2
<1>9. ASSUME NEW p \in Spots
      PROVE  In(Event("MOUSE_POSITION", p), AllOf) <=> /\ core.mouse.position # core.mouse.previousPosition
                                                       /\ p = core.mouse.position
  BY <1>1, <1>3
<1> HIDE DEF AllOf
<1> QED
  BY <1>6, <1>7, <1>8, <1>9

\* As much of it as there is room for.
LEMMA RecordIs ==
    ASSUME TypeInv
    PROVE  \E n \in 0..Len(AllOf) :
             /\ RecordAutomationEvent = list \o SubSeq(AllOf, 1, n)
             /\ Len(list) + n <= Capacity
             /\ n < Len(AllOf) => Len(list) + n = Capacity
<1> DEFINE room == Capacity - Len(list)
           n == IF Len(AllOf) < room THEN Len(AllOf) ELSE room
<1>1. RecordAutomationEvent = list \o SubSeq(AllOf, 1, n)
  BY Zenon DEF RecordAutomationEvent, AllOf, KeyChanges, ButtonChanges, MouseMove, WheelTurn, TouchChanges,
     TouchPlace, PadChanges, GestureSeen
<1>2. AllOf \in Seq(Events) /\ Len(AllOf) \in Nat /\ list \in Seq(Events) /\ Len(list) \in Nat
      /\ Len(list) <= Capacity /\ Capacity \in Nat
  BY AllOfIs, InputAssumption DEF TypeInv
<1>3. n \in 0..Len(AllOf) /\ Len(list) + n <= Capacity /\ (n < Len(AllOf) => Len(list) + n = Capacity)
  BY <1>2
<1> HIDE DEF n
<1> QED
  BY <1>1, <1>3

\* The list with what is new.
LEMMA LongerList ==
    ASSUME NEW E, NEW old \in Seq(E), NEW s \in Seq(E), NEW n \in 0..Len(s)
    PROVE  LET new == old \o SubSeq(s, 1, n)
           IN  /\ new \in Seq(E) /\ Len(new) = Len(old) + n
               /\ \A j \in 1..Len(old) : new[j] = old[j]
               /\ \A j \in 1..n : new[Len(old) + j] = s[j]
<1>1. SubSeq(s, 1, n) \in Seq(E) /\ Len(SubSeq(s, 1, n)) = n /\ \A j \in 1..n : SubSeq(s, 1, n)[j] = s[j]
  OBVIOUS
<1> DEFINE t == SubSeq(s, 1, n)
<1> HIDE DEF t
<1>2. t \in Seq(E) /\ Len(t) = n /\ n \in Nat /\ \A j \in 1..n : t[j] = s[j]
  BY <1>1 DEF t
<1>3. /\ old \o t \in Seq(E) /\ Len(old \o t) = Len(old) + Len(t)
      /\ \A j \in 1..Len(old) : (old \o t)[j] = old[j]
  <2>1. t \in Seq(E)
    BY <1>2
  <2>2. old \o t \in Seq(E) /\ Len(old \o t) = Len(old) + Len(t)
    BY <2>1
  <2>3. \A j \in 1..Len(old) : (old \o t)[j] = old[j]
    BY <2>1
  <2> QED
    BY <2>2, <2>3
<1>4. \A j \in 1..Len(t) : (old \o t)[Len(old) + j] = t[j]
  BY <1>2
<1> QED
  BY <1>2, <1>3, <1>4 DEF t
-----------------------------------------------------------------------------
(* The end of a frame. *)

\* The poll takes what is for what was.
LEMMA PollIs ==
    ASSUME core \in CoreType, user \in UserType
    PROVE  LET r == PollInputEvents
           IN  /\ r \in CoreType
               /\ r.keys.previous = core.keys.current /\ r.keys.current = core.keys.current
               /\ r.keys.repeated = {} /\ r.keys.queue = <<>>
               /\ r.mouse.previous = core.mouse.current /\ r.mouse.current = core.mouse.current
               /\ r.mouse.wheel = 0 /\ r.mouse.position = core.mouse.position
               /\ r.mouse.previousPosition = core.mouse.position
               /\ r.touch.previous = core.touch.current /\ r.touch.current = core.touch.current
               /\ r.pad = PolledPad
               /\ r.closing = core.closing /\ r.shouldClose = core.shouldClose
<1> DEFINE keys == [core.keys EXCEPT !.previous = core.keys.current, !.repeated = {},
                                     !.queue = <<>>, !.chars = <<>>]
           mouse == [core.mouse EXCEPT !.previous = core.mouse.current, !.previousWheel = core.mouse.wheel,
                                       !.wheel = 0, !.previousPosition = core.mouse.position]
           touch == [core.touch EXCEPT !.previous = core.touch.current, !.position = core.mouse.position]
           r == PollInputEvents
<1>1. core.keys \in KeysType /\ core.mouse \in MouseType /\ core.touch \in TouchType /\ core.pad \in PadType
      /\ user.pad \in UserPad
  BY CoreIs, UserIs
<1>2. /\ keys \in KeysType /\ keys.previous = core.keys.current /\ keys.current = core.keys.current
      /\ keys.repeated = {} /\ keys.queue = <<>>
  <2>0. <<>> \in Seq(Keys) /\ {} \in SUBSET Keys
    OBVIOUS
  <2>1. PICK none \in Seq(Keys), nobody \in SUBSET Keys : none = <<>> /\ nobody = {}
    BY <2>0
  <2>2. keys = [core.keys EXCEPT !.previous = core.keys.current, !.repeated = nobody,
                                 !.queue = none, !.chars = none]
    BY <2>1
  <2> HIDE DEF keys
  <2>3. /\ keys \in KeysType /\ keys.previous = core.keys.current /\ keys.current = core.keys.current
        /\ keys.repeated = nobody /\ keys.queue = none
    BY <1>1, <2>2 DEF KeysType
  <2> QED
    BY <2>1, <2>3
<1>3. /\ mouse \in MouseType /\ mouse.previous = core.mouse.current /\ mouse.current = core.mouse.current
      /\ mouse.wheel = 0 /\ mouse.position = core.mouse.position
      /\ mouse.previousPosition = core.mouse.position
  BY <1>1 DEF MouseType, Turns
<1>4. /\ touch \in TouchType /\ touch.previous = core.touch.current /\ touch.current = core.touch.current
  BY <1>1 DEF MouseType, TouchType
<1>5. PolledPad \in PadType
  <2> DEFINE current == [b \in PadButtons |-> user.pad.mapped /\ b \in user.pad.down]
             last == IF \E b \in PadButtons : current[b]
                       THEN CHOOSE b \in PadButtons : current[b] ELSE "unknown"
  <2>1. current \in [PadButtons -> BOOLEAN]
    BY <1>1 DEF UserPad
  <2>2. last \in PadButtons \cup {"unknown"}
    OBVIOUS
  <2>3. PolledPad = IF ~user.pad.present THEN [core.pad EXCEPT !.ready = FALSE, !.last = "unknown"]
                    ELSE [ready |-> TRUE, previous |-> core.pad.current, current |-> current, last |-> last]
    BY DEF PolledPad
  <2> HIDE DEF current, last
  <2> QED
    BY <1>1, <2>1, <2>2, <2>3 DEF PadType
<1>6. r = [core EXCEPT !.keys = keys, !.mouse = mouse, !.touch = touch, !.pad = PolledPad]
  BY DEF PollInputEvents, CoreType
<1> HIDE DEF keys, mouse, touch, r
<1>7. /\ r \in CoreType /\ r.keys = keys /\ r.mouse = mouse /\ r.touch = touch /\ r.pad = PolledPad
      /\ r.closing = core.closing /\ r.shouldClose = core.shouldClose
  BY <1>1, <1>2, <1>3, <1>4, <1>5, <1>6 DEF CoreType
<1> QED
  BY <1>2, <1>3, <1>4, <1>7 DEF r

\* What changes when a frame ends, without the recording.
LEMMA FrameEnds ==
    ASSUME TypeInv, EndDrawing
    PROVE  /\ core' \in CoreType /\ user' \in UserType /\ story' \in StoryType /\ gestures' \in GesturesType
           /\ story.at = "frame" /\ story'.at = "polling" /\ story'.kind = story.kind
           /\ story'.frame = story.frame /\ story.frame < MaxFrames /\ core' = PollInputEvents
           /\ user'.keys = user.keys /\ user'.locked = user.locked /\ user'.buttons = user.buttons
           /\ user'.place = user.place /\ user'.from = user.place /\ user'.turned = 0 /\ user'.read = 0
           /\ user'.pressed = <<>> /\ user'.repeated = {} /\ user'.asksToClose = FALSE
           /\ user'.pad = [user.pad EXCEPT !.seen = PadAnswers]
<1>1. core \in CoreType /\ user \in UserType /\ story \in StoryType /\ gestures \in GesturesType
      /\ user.pad \in UserPad /\ core.pad \in PadType
  BY CoreIs, UserIs DEF TypeInv
<1>2. core' = PollInputEvents /\ core' \in CoreType
  BY <1>1, PollIs DEF EndDrawing
<1>3. gestures' \in GesturesType
  BY <1>1, UpdatedIs DEF EndDrawing
<1>4. PICK pause \in Nat : story' = [story EXCEPT !.at = "polling", !.now = story.now + pause]
  BY InputAssumption DEF EndDrawing
<1>5. /\ story' \in StoryType /\ story'.at = "polling" /\ story'.kind = story.kind
      /\ story'.frame = story.frame /\ story.at = "frame" /\ story.frame < MaxFrames
  <2>1. PICK now \in Nat : now = story.now + pause
    BY <1>1 DEF StoryType
  <2>2. story' = [story EXCEPT !.at = "polling", !.now = now]
    BY <1>4, <2>1
  <2> QED
    BY <1>1, <2>2 DEF StoryType, EndDrawing
<1> DEFINE pad == [user.pad EXCEPT !.seen = PadAnswers]
<1>6. pad \in UserPad
  <2>1. PadAnswers \in SeenType
    BY <1>1 DEF PadAnswers, SeenType, PadType
  <2> QED
    BY <1>1, <2>1 DEF UserPad
<1>7. user' = [user EXCEPT !.pressed = <<>>, !.repeated = {}, !.read = 0, !.turned = 0,
                           !.asksToClose = FALSE, !.from = user.place, !.pad = pad]
  BY <1>1 DEF EndDrawing, UserType, UserPad
<1> HIDE DEF pad
<1>8. /\ user' \in UserType
      /\ user'.keys = user.keys /\ user'.locked = user.locked /\ user'.buttons = user.buttons
      /\ user'.place = user.place /\ user'.from = user.place /\ user'.turned = 0 /\ user'.read = 0
      /\ user'.pressed = <<>> /\ user'.repeated = {} /\ user'.asksToClose = FALSE /\ user'.pad = pad
  <2>0. <<>> \in Seq(Keys) /\ {} \in SUBSET Keys /\ 0 \in Nat \cap Turns
    BY DEF Turns
  <2>1. PICK none \in Seq(Keys), nobody \in SUBSET Keys, zero \in Nat \cap Turns, no \in BOOLEAN :
          none = <<>> /\ nobody = {} /\ zero = 0 /\ no = FALSE
    BY <2>0
  <2>2. user' = [user EXCEPT !.pressed = none, !.repeated = nobody, !.read = zero, !.turned = zero,
                             !.asksToClose = no, !.from = user.place, !.pad = pad]
    BY <1>7, <2>1
  <2>3. /\ user' \in UserType
        /\ user'.keys = user.keys /\ user'.locked = user.locked /\ user'.buttons = user.buttons
        /\ user'.place = user.place /\ user'.from = user.place /\ user'.turned = zero /\ user'.read = zero
        /\ user'.pressed = none /\ user'.repeated = nobody /\ user'.asksToClose = no /\ user'.pad = pad
    BY <1>1, <1>6, <2>2 DEF UserType
  <2> QED
    BY <2>1, <2>3
<1> QED
  BY <1>2, <1>3, <1>5, <1>8 DEF pad

\* What the poll finds of the gamepad.
LEMMA PadIsPolled ==
    ASSUME TypeInv, core' \in CoreType, core'.pad = PolledPad, user'.pad = [user.pad EXCEPT !.seen = PadAnswers]
    PROVE  PadFollows(PadAnswers)'
<1>1. core.pad \in PadType /\ user.pad \in UserPad /\ core'.pad \in PadType
  BY CoreIs, UserIs DEF TypeInv
<1>2. /\ user'.pad.present = user.pad.present /\ user'.pad.mapped = user.pad.mapped
      /\ user'.pad.down = user.pad.down /\ user'.pad.seen = PadAnswers
  BY <1>1 DEF UserPad
<1> DEFINE down == IF user.pad.mapped THEN user.pad.down ELSE {}
<1>3. down \subseteq PadButtons
  BY <1>1 DEF UserPad
<1>4. /\ core'.pad.ready = user.pad.present
      /\ user.pad.present => /\ core'.pad.previous = core.pad.current
                             /\ \A b \in PadButtons : core'.pad.current[b] <=> b \in down
  <2>1. CASE ~user.pad.present
    <3>1. core'.pad = [core.pad EXCEPT !.ready = FALSE, !.last = "unknown"]
      BY <2>1 DEF PolledPad
    <3> QED
      BY <1>1, <2>1, <3>1 DEF PadType, UserPad
  <2>2. CASE user.pad.present
    <3> DEFINE current == [b \in PadButtons |-> user.pad.mapped /\ b \in user.pad.down]
    <3>1. core'.pad.ready = TRUE /\ core'.pad.previous = core.pad.current /\ core'.pad.current = current
      BY <2>2 DEF PolledPad
    <3>2. \A b \in PadButtons : current[b] <=> b \in down
      OBVIOUS
    <3>3. user.pad.present = TRUE
      BY <1>1, <2>2 DEF UserPad
    <3> HIDE DEF current
    <3> QED
      BY <3>1, <3>2, <3>3
  <2> QED
    BY <2>1, <2>2
<1> HIDE DEF down
<1>5. PadAnswers.ready = core.pad.ready
      /\ PadAnswers.down = {b \in PadButtons : core.pad.ready /\ core.pad.current[b]}
  BY DEF PadAnswers, IsGamepadButtonDown
<1>6. /\ {b \in PadButtons : IsGamepadButtonDown(b)'} = IF user.pad.present THEN down ELSE {}
      /\ {b \in PadButtons : IsGamepadButtonUp(b)'} = IF user.pad.present THEN PadButtons \ down ELSE {}
  <2>1. CASE ~user.pad.present
    BY <1>4, <2>1 DEF IsGamepadButtonDown, IsGamepadButtonUp
  <2>2. CASE user.pad.present
    BY <1>3, <1>4, <2>2 DEF IsGamepadButtonDown, IsGamepadButtonUp
  <2> QED
    BY <2>1, <2>2
<1>7. ASSUME core.pad.ready, user.pad.present
      PROVE  /\ {b \in PadButtons : IsGamepadButtonPressed(b)'} = down \ PadAnswers.down
             /\ {b \in PadButtons : IsGamepadButtonReleased(b)'} = PadAnswers.down \ down
  BY <1>3, <1>4, <1>5, <1>7 DEF IsGamepadButtonPressed, IsGamepadButtonReleased
<1>8. /\ PadAnswers'.ready = core'.pad.ready
      /\ PadAnswers'.down = {b \in PadButtons : IsGamepadButtonDown(b)'}
      /\ PadAnswers'.up = {b \in PadButtons : IsGamepadButtonUp(b)'}
      /\ PadAnswers'.pressed = {b \in PadButtons : IsGamepadButtonPressed(b)'}
      /\ PadAnswers'.released = {b \in PadButtons : IsGamepadButtonReleased(b)'}
  BY DEF PadAnswers
<1>9. down = IF user'.pad.mapped THEN user'.pad.down ELSE {}
  BY <1>2 DEF down
<1>10. /\ PadAnswers'.ready = user'.pad.present
       /\ PadAnswers'.down = IF user'.pad.present THEN down ELSE {}
       /\ PadAnswers'.up = IF user'.pad.present THEN PadButtons \ down ELSE {}
       /\ PadAnswers'.ready /\ user'.pad.seen.ready =>
            PadAnswers'.pressed = down \ user'.pad.seen.down /\ PadAnswers'.released = user'.pad.seen.down \ down
  BY <1>2, <1>4, <1>5, <1>6, <1>7, <1>8
<1> HIDE DEF PadAnswers
<1> QED
  BY <1>9, <1>10 DEF PadFollows

LEMMA EndDrawingFollows ==
    ASSUME TypeInv, Following, EndDrawing
    PROVE  TypeInv' /\ Following'
<1>1. /\ core' \in CoreType /\ user' \in UserType /\ story' \in StoryType /\ gestures' \in GesturesType
      /\ story.at = "frame" /\ story'.at = "polling" /\ story'.kind = story.kind
      /\ core' = PollInputEvents
      /\ user'.keys = user.keys /\ user'.locked = user.locked /\ user'.buttons = user.buttons
      /\ user'.place = user.place /\ user'.from = user.place /\ user'.turned = 0 /\ user'.read = 0
      /\ user'.pressed = <<>> /\ user'.repeated = {} /\ user'.asksToClose = FALSE
      /\ user'.pad = [user.pad EXCEPT !.seen = PadAnswers]
  BY FrameEnds
<1>2. list' \in Seq(Events) /\ Len(list') <= Capacity
  <2>1. list \in Seq(Events) /\ Len(list) <= Capacity
    BY DEF TypeInv
  <2>2. PICK n \in 0..Len(AllOf) :
          /\ RecordAutomationEvent = list \o SubSeq(AllOf, 1, n)
          /\ Len(list) + n <= Capacity
    BY RecordIs
  <2>3. AllOf \in Seq(Events)
    BY AllOfIs
  <2>4. /\ list \o SubSeq(AllOf, 1, n) \in Seq(Events)
        /\ Len(list \o SubSeq(AllOf, 1, n)) = Len(list) + n
    BY <2>1, <2>3, LongerList
  <2>5. list' = RecordAutomationEvent \/ list' = list
    BY DEF EndDrawing
  <2> HIDE DEF RecordAutomationEvent, AllOf
  <2> QED
    BY <2>1, <2>2, <2>4, <2>5
<1>3. story.kind \in {"used", "recorded", "played"}
  BY DEF TypeInv, StoryType
<1>4. /\ story.kind = "used" => frames' = <<Answers>>
      /\ story.kind = "recorded" => frames' = Append(frames, Answers)
      /\ story.kind = "played" => frames' = frames
  BY <1>3 DEF EndDrawing
<1>5. PICK S : frames \in Seq(S)
  BY DEF TypeInv
<1>6. \E T : frames' \in Seq(T)
  <2> DEFINE T == S \cup {Answers}
             a == Answers
  <2>1. a \in T /\ S \subseteq T
    OBVIOUS
  <2>2. frames' = <<a>> \/ frames' = Append(frames, a) \/ frames' = frames
    BY <1>3, <1>4
  <2> HIDE DEF T, a
  <2>3. frames \in Seq(T)
    BY <1>5, <2>1
  <2>4. <<a>> \in Seq(T) /\ Append(frames, a) \in Seq(T)
    BY <2>1, <2>3
  <2>5. frames' \in Seq(T)
    BY <2>2, <2>3, <2>4, Zenon
  <2> QED
    BY <2>5
<1>7. TypeInv'
  BY <1>1, <1>2, <1>6 DEF TypeInv
<1>8. ASSUME story.kind # "played"
      PROVE  Held' /\ Queued' /\ Before' /\ Closing' /\ Pads'
  <2>1. Held /\ Closing
    BY <1>8 DEF Following
  <2>2. core \in CoreType /\ user \in UserType
    BY DEF TypeInv
  <2>3. /\ core'.keys.previous = core.keys.current /\ core'.keys.current = core.keys.current
        /\ core'.keys.repeated = {} /\ core'.keys.queue = <<>>
        /\ core'.mouse.previous = core.mouse.current /\ core'.mouse.current = core.mouse.current
        /\ core'.mouse.wheel = 0 /\ core'.mouse.position = core.mouse.position
        /\ core'.mouse.previousPosition = core.mouse.position
        /\ core'.touch.previous = core.touch.current /\ core'.touch.current = core.touch.current
        /\ core'.pad = PolledPad
        /\ core'.closing = core.closing /\ core'.shouldClose = core.shouldClose
    BY <1>1, <2>2, PollIs
  <2>4. Held'
    BY <1>1, <2>1, <2>3 DEF Held
  <2>5. Queued'
    <3>1. Noticed(<<>>) = <<>>
      BY InputAssumption DEF Noticed
    <3>2. Noticed(user.pressed)' = <<>>
      BY <1>1, <3>1 DEF Noticed
    <3> QED
      BY <1>1, <2>3, <3>2 DEF Queued
  <2>6. Before'
    <3>1. Answers.down = {k \in Keys : core.keys.current[k]}
      BY DEF Answers, IsKeyDown
    <3>2. frames' # <<>> => Last(frames') = Answers
      <4>1. PICK a : a = Answers
        OBVIOUS
      <4>2. frames' = <<a>> \/ frames' = Append(frames, a)
        BY <1>3, <1>4, <1>8, <4>1
      <4>3. Len(Append(frames, a)) = Len(frames) + 1 /\ Append(frames, a)[Len(frames) + 1] = a
        BY <1>5
      <4> QED
        BY <4>1, <4>2, <4>3 DEF Last
    <3> HIDE DEF Answers
    <3> QED
      BY <2>3, <3>1, <3>2 DEF Before
  <2>7. Closing'
    <3>1. core'.closing = FALSE
      BY <1>1, <2>1, <2>2, <2>3, CoreIs DEF Closing
    <3> QED
      BY <1>1, <3>1 DEF Closing
  <2>8. Pads'
    <3>1. PadFollows(PadAnswers)'
      BY <1>1, <2>3, PadIsPolled
    <3> QED
      BY <3>1 DEF Pads
  <2> QED
    BY <2>4, <2>5, <2>6, <2>7, <2>8
<1> QED
  BY <1>1, <1>7, <1>8 DEF Following
-----------------------------------------------------------------------------
(* Playing a recording. *)

\* What a played event makes of the state r.
IsPlayed(c, e, r) ==
    /\ r \in CoreType
    /\ r.keys.previous = c.keys.previous /\ r.mouse.previous = c.mouse.previous
    /\ r.touch.previous = c.touch.previous /\ r.mouse.previousPosition = c.mouse.previousPosition
    /\ \A k \in Keys : r.keys.current[k] <=> \/ e.type = "KEY_DOWN" /\ e.id = k
                                             \/ c.keys.current[k] /\ ~(e.type = "KEY_UP" /\ e.id = k)
    /\ \A b \in Buttons :
         /\ r.mouse.current[b] <=> \/ e.type = "MOUSE_BUTTON_DOWN" /\ e.id = b
                                   \/ c.mouse.current[b] /\ ~(e.type = "MOUSE_BUTTON_UP" /\ e.id = b)
         /\ r.touch.current[b] <=> \/ e.type = "TOUCH_DOWN" /\ e.id = b
                                   \/ c.touch.current[b] /\ ~(e.type = "TOUCH_UP" /\ e.id = b)
    /\ r.mouse.position = IF e.type = "MOUSE_POSITION" THEN e.id ELSE c.mouse.position

\* One state of a device, with one key or button that is changed.
LEMMA OneChanges ==
    ASSUME NEW K, NEW f \in [K -> BOOLEAN], NEW x \in K, NEW down \in BOOLEAN
    PROVE  /\ [f EXCEPT ![x] = down] \in [K -> BOOLEAN]
           /\ \A k \in K : [f EXCEPT ![x] = down][k] <=> IF k = x THEN down ELSE f[k]
OBVIOUS

LEMMA KeyIsPlayed ==
    ASSUME NEW c \in CoreType, NEW e \in KeyEvents
    PROVE  IsPlayed(c, e, Played(c, e))
<1>1. e.type \in {"KEY_UP", "KEY_DOWN"} /\ e.id \in Keys
  BY DEF KeyEvents
<1>2. c.keys \in KeysType
  BY CoreIs
<1>3. c.keys.current \in [Keys -> BOOLEAN] /\ c.keys.queue \in Seq(Keys)
  BY <1>2 DEF KeysType
<1> DEFINE down == e.type = "KEY_DOWN"
           current == [c.keys.current EXCEPT ![e.id] = down]
<1>4. /\ current \in [Keys -> BOOLEAN]
      /\ \A k \in Keys : current[k] <=> IF k = e.id THEN down ELSE c.keys.current[k]
  BY <1>1, <1>3, OneChanges
<1>5. PICK queue \in Seq(Keys) :
        Played(c, e) = [c EXCEPT !.keys = [c.keys EXCEPT !.current = current, !.queue = queue]]
  <2>1. CASE e.type = "KEY_UP"
    <3>1. Played(c, e) = [c EXCEPT !.keys.current[e.id] = FALSE] /\ ~down
      BY <2>1 DEF Played
    <3>2. [c EXCEPT !.keys.current[e.id] = FALSE] = [c EXCEPT !.keys = [c.keys EXCEPT !.current = current, !.queue = c.keys.queue]]
      BY <1>2, <2>1 DEF CoreType, KeysType
    <3> QED
      BY <1>3, <3>1, <3>2
  <2>2. CASE e.type = "KEY_DOWN"
    <3> DEFINE queue == c.keys.queue \o When(~c.keys.previous[e.id] /\ Len(c.keys.queue) < QueueSize, e.id)
    <3>1. queue \in Seq(Keys)
      BY <1>1, <1>3 DEF When
    <3>2. Played(c, e) = [c EXCEPT !.keys.current[e.id] = TRUE, !.keys.queue = queue]
      BY <1>2, <2>2 DEF Played, CoreType, KeysType
    <3> HIDE DEF queue
    <3>3. [c EXCEPT !.keys.current[e.id] = TRUE, !.keys.queue = queue]
            = [c EXCEPT !.keys = [c.keys EXCEPT !.current = current, !.queue = queue]]
      BY <1>2, <2>2 DEF CoreType, KeysType
    <3> QED
      BY <3>1, <3>2, <3>3
  <2> QED
    BY <1>1, <2>1, <2>2
<1> HIDE DEF current
<1> DEFINE keys == [c.keys EXCEPT !.current = current, !.queue = queue]
<1>6. keys \in KeysType /\ keys.previous = c.keys.previous /\ keys.current = current
  BY <1>2, <1>4, <1>5 DEF KeysType
<1> HIDE DEF keys
<1>7. PICK r : r = Played(c, e)
  OBVIOUS
<1>8. r \in CoreType /\ r.keys = keys /\ r.mouse = c.mouse /\ r.touch = c.touch
  BY <1>5, <1>6, <1>7 DEF CoreType, keys
<1>9. /\ down => e.type # "KEY_UP"
      /\ ~down => e.type = "KEY_UP"
  BY <1>1
<1>10. \A k \in Keys : r.keys.current[k] <=> \/ e.type = "KEY_DOWN" /\ e.id = k
                                             \/ c.keys.current[k] /\ ~(e.type = "KEY_UP" /\ e.id = k)
  BY <1>1, <1>4, <1>6, <1>8, <1>9
<1>11. /\ e.type # "MOUSE_BUTTON_DOWN" /\ e.type # "MOUSE_BUTTON_UP" /\ e.type # "TOUCH_UP"
       /\ e.type # "TOUCH_DOWN" /\ e.type # "MOUSE_POSITION"
  BY <1>1
<1> QED
  BY <1>6, <1>7, <1>8, <1>10, <1>11 DEF IsPlayed

LEMMA ButtonIsPlayed ==
    ASSUME NEW c \in CoreType, NEW e \in ButtonEvents
    PROVE  IsPlayed(c, e, Played(c, e))
<1>1. e.type \in {"MOUSE_BUTTON_UP", "MOUSE_BUTTON_DOWN", "TOUCH_UP", "TOUCH_DOWN"} /\ e.id \in Buttons
  BY DEF ButtonEvents
<1>2. c.mouse \in MouseType /\ c.touch \in TouchType
  BY CoreIs
<1>3. c.mouse.current \in [Buttons -> BOOLEAN] /\ c.touch.current \in [Buttons -> BOOLEAN]
  BY <1>2 DEF MouseType, TouchType
<1>4. PICK r : r = Played(c, e)
  OBVIOUS
<1>7. PICK down \in BOOLEAN : down <=> e.type \in {"MOUSE_BUTTON_DOWN", "TOUCH_DOWN"}
  OBVIOUS
<1>5. CASE e.type \in {"MOUSE_BUTTON_UP", "MOUSE_BUTTON_DOWN"}
  <2> DEFINE current == [c.mouse.current EXCEPT ![e.id] = down]
             mouse == [c.mouse EXCEPT !.current = current]
  <2>1. /\ current \in [Buttons -> BOOLEAN]
        /\ \A b \in Buttons : current[b] <=> IF b = e.id THEN down ELSE c.mouse.current[b]
    BY <1>1, <1>3, OneChanges
  <2>2. r = [c EXCEPT !.mouse = mouse]
    <3>1. CASE e.type = "MOUSE_BUTTON_UP"
      <4>1. r = [c EXCEPT !.mouse.current[e.id] = FALSE]
        BY <1>4, <3>1 DEF Played
      <4>2. down = FALSE
        BY <1>7, <3>1
      <4> QED
        BY <1>2, <4>1, <4>2 DEF CoreType, MouseType
    <3>2. CASE e.type = "MOUSE_BUTTON_DOWN"
      <4>1. r = [c EXCEPT !.mouse.current[e.id] = TRUE]
        BY <1>4, <3>2 DEF Played
      <4>2. down = TRUE
        BY <1>7, <3>2
      <4> QED
        BY <1>2, <4>1, <4>2 DEF CoreType, MouseType
    <3> QED
      BY <1>5, <3>1, <3>2
  <2> HIDE DEF current
  <2>3. /\ mouse \in MouseType /\ mouse.current = current /\ mouse.previous = c.mouse.previous
        /\ mouse.position = c.mouse.position /\ mouse.previousPosition = c.mouse.previousPosition
    BY <1>2, <2>1 DEF MouseType
  <2> HIDE DEF mouse
  <2>4. r \in CoreType /\ r.keys = c.keys /\ r.mouse = mouse /\ r.touch = c.touch
    BY <2>2, <2>3 DEF CoreType
  <2>5. \A b \in Buttons : r.mouse.current[b] <=>
          \/ e.type = "MOUSE_BUTTON_DOWN" /\ e.id = b
          \/ c.mouse.current[b] /\ ~(e.type = "MOUSE_BUTTON_UP" /\ e.id = b)
    BY <1>5, <1>7, <2>1, <2>3, <2>4
  <2>6. /\ e.type # "KEY_DOWN" /\ e.type # "KEY_UP" /\ e.type # "TOUCH_UP"
        /\ e.type # "TOUCH_DOWN" /\ e.type # "MOUSE_POSITION"
    BY <1>5
  <2> QED
    BY <1>4, <2>3, <2>4, <2>5, <2>6 DEF IsPlayed
<1>6. CASE e.type \in {"TOUCH_UP", "TOUCH_DOWN"}
  <2> DEFINE current == [c.touch.current EXCEPT ![e.id] = down]
             touch == [c.touch EXCEPT !.current = current]
  <2>1. /\ current \in [Buttons -> BOOLEAN]
        /\ \A b \in Buttons : current[b] <=> IF b = e.id THEN down ELSE c.touch.current[b]
    BY <1>1, <1>3, OneChanges
  <2>2. r = [c EXCEPT !.touch = touch]
    <3>1. CASE e.type = "TOUCH_UP"
      <4>1. r = [c EXCEPT !.touch.current[e.id] = FALSE]
        BY <1>4, <3>1 DEF Played
      <4>2. down = FALSE
        BY <1>7, <3>1
      <4> QED
        BY <1>2, <4>1, <4>2 DEF CoreType, TouchType
    <3>2. CASE e.type = "TOUCH_DOWN"
      <4>1. r = [c EXCEPT !.touch.current[e.id] = TRUE]
        BY <1>4, <3>2 DEF Played
      <4>2. down = TRUE
        BY <1>7, <3>2
      <4> QED
        BY <1>2, <4>1, <4>2 DEF CoreType, TouchType
    <3> QED
      BY <1>6, <3>1, <3>2
  <2> HIDE DEF current
  <2>3. touch \in TouchType /\ touch.current = current /\ touch.previous = c.touch.previous
    BY <1>2, <2>1 DEF TouchType
  <2> HIDE DEF touch
  <2>4. r \in CoreType /\ r.keys = c.keys /\ r.mouse = c.mouse /\ r.touch = touch
    BY <2>2, <2>3 DEF CoreType
  <2>5. \A b \in Buttons : r.touch.current[b] <=>
          \/ e.type = "TOUCH_DOWN" /\ e.id = b
          \/ c.touch.current[b] /\ ~(e.type = "TOUCH_UP" /\ e.id = b)
    BY <1>6, <1>7, <2>1, <2>3, <2>4
  <2>6. /\ e.type # "KEY_DOWN" /\ e.type # "KEY_UP" /\ e.type # "MOUSE_BUTTON_UP"
        /\ e.type # "MOUSE_BUTTON_DOWN" /\ e.type # "MOUSE_POSITION"
    BY <1>6
  <2> QED
    BY <1>4, <2>3, <2>4, <2>5, <2>6 DEF IsPlayed
<1> QED
  BY <1>1, <1>5, <1>6

LEMMA EventIsPlayed ==
    ASSUME NEW c \in CoreType, NEW e \in Events
    PROVE  IsPlayed(c, e, Played(c, e))
<1>1. PICK r : r = Played(c, e)
  OBVIOUS
<1>2. c.mouse \in MouseType /\ c.touch \in TouchType /\ c.pad \in PadType
  BY CoreIs
<1>3. ASSUME e \notin KeyEvents, e \notin ButtonEvents
      PROVE  IsPlayed(c, e, r)
  <2>1. \/ e.type \in {"MOUSE_POSITION", "TOUCH_POSITION"} /\ e.id \in Spots
        \/ e.type = "MOUSE_WHEEL_MOTION" /\ e.id \in Turns
        \/ e.type \in {"GAMEPAD_BUTTON_UP", "GAMEPAD_BUTTON_DOWN"} /\ e.id \in PadButtons
        \/ e.type = "GESTURE"
    BY <1>3 DEF Events, PlaceEvents, WheelEvents, PadEvents, GestureEvents
  <2>2. /\ e.type # "KEY_DOWN" /\ e.type # "KEY_UP" /\ e.type # "MOUSE_BUTTON_UP"
        /\ e.type # "MOUSE_BUTTON_DOWN" /\ e.type # "TOUCH_UP" /\ e.type # "TOUCH_DOWN"
    BY <2>1
  <2>3. /\ r \in CoreType /\ r.keys = c.keys
        /\ r.mouse.previous = c.mouse.previous /\ r.mouse.current = c.mouse.current
        /\ r.mouse.previousPosition = c.mouse.previousPosition
        /\ r.touch.previous = c.touch.previous /\ r.touch.current = c.touch.current
        /\ r.mouse.position = IF e.type = "MOUSE_POSITION" THEN e.id ELSE c.mouse.position
    <3>1. CASE e.type = "MOUSE_POSITION"
      <4> DEFINE mouse == [c.mouse EXCEPT !.position = e.id]
      <4>1. r = [c EXCEPT !.mouse = mouse]
        <5>1. r = [c EXCEPT !.mouse.position = e.id]
          BY <1>1, <3>1 DEF Played
        <5> QED
          BY <1>2, <5>1 DEF CoreType, MouseType
      <4>2. /\ mouse \in MouseType /\ mouse.previous = c.mouse.previous /\ mouse.current = c.mouse.current
            /\ mouse.previousPosition = c.mouse.previousPosition /\ mouse.position = e.id
        BY <1>2, <2>1, <3>1 DEF MouseType
      <4> HIDE DEF mouse
      <4>3. r \in CoreType /\ r.keys = c.keys /\ r.mouse = mouse /\ r.touch = c.touch
        BY <4>1, <4>2 DEF CoreType
      <4> QED
        BY <3>1, <4>2, <4>3
    <3>2. CASE e.type = "TOUCH_POSITION"
      <4> DEFINE touch == [c.touch EXCEPT !.position = e.id]
      <4>1. r = [c EXCEPT !.touch = touch]
        <5>1. r = [c EXCEPT !.touch.position = e.id]
          BY <1>1, <3>2 DEF Played
        <5> QED
          BY <1>2, <5>1 DEF CoreType, TouchType
      <4>2. touch \in TouchType /\ touch.previous = c.touch.previous /\ touch.current = c.touch.current
        BY <1>2, <2>1, <3>2 DEF TouchType
      <4> HIDE DEF touch
      <4>3. r \in CoreType /\ r.keys = c.keys /\ r.mouse = c.mouse /\ r.touch = touch
        BY <4>1, <4>2 DEF CoreType
      <4> QED
        BY <3>2, <4>2, <4>3
    <3>3. CASE e.type = "MOUSE_WHEEL_MOTION"
      <4> DEFINE mouse == [c.mouse EXCEPT !.wheel = e.id]
      <4>1. r = [c EXCEPT !.mouse = mouse]
        <5>1. r = [c EXCEPT !.mouse.wheel = e.id]
          BY <1>1, <3>3 DEF Played
        <5> QED
          BY <1>2, <5>1 DEF CoreType, MouseType
      <4>2. /\ mouse \in MouseType /\ mouse.previous = c.mouse.previous /\ mouse.current = c.mouse.current
            /\ mouse.previousPosition = c.mouse.previousPosition /\ mouse.position = c.mouse.position
        BY <1>2, <2>1, <3>3 DEF MouseType
      <4> HIDE DEF mouse
      <4>3. r \in CoreType /\ r.keys = c.keys /\ r.mouse = mouse /\ r.touch = c.touch
        BY <4>1, <4>2 DEF CoreType
      <4> QED
        BY <3>3, <4>2, <4>3
    <3>4. CASE e.type \in {"GAMEPAD_BUTTON_UP", "GAMEPAD_BUTTON_DOWN"}
      <4> DEFINE current == [c.pad.current EXCEPT ![e.id] = e.type = "GAMEPAD_BUTTON_DOWN"]
                 pad == [c.pad EXCEPT !.current = current]
      <4>1. r = [c EXCEPT !.pad = pad]
        <5>1. \/ e.type = "GAMEPAD_BUTTON_UP" /\ r = [c EXCEPT !.pad.current[e.id] = FALSE]
              \/ e.type = "GAMEPAD_BUTTON_DOWN" /\ r = [c EXCEPT !.pad.current[e.id] = TRUE]
          BY <1>1, <3>4 DEF Played
        <5> QED
          BY <1>2, <5>1 DEF CoreType, PadType
      <4>2. pad \in PadType
        BY <1>2, <2>1, <3>4 DEF PadType
      <4> HIDE DEF pad
      <4>3. r \in CoreType /\ r.keys = c.keys /\ r.mouse = c.mouse /\ r.touch = c.touch
        BY <4>1, <4>2 DEF CoreType
      <4> QED
        BY <3>4, <4>3
    <3>5. CASE e.type = "GESTURE"
      <4>1. r = c
        BY <1>1, <3>5 DEF Played
      <4> QED
        BY <3>5, <4>1
    <3> QED
      BY <2>1, <3>1, <3>2, <3>3, <3>4, <3>5
  <2> QED
    BY <2>2, <2>3 DEF IsPlayed
<1> QED
  BY <1>1, <1>3, KeyIsPlayed, ButtonIsPlayed

LEMMA GestureIsPlayed ==
    ASSUME NEW g \in GesturesType, NEW e \in Events
    PROVE  Gestured(g, e) \in GesturesType
<1>1. e.type = "GESTURE" => e.id \in Gestures
  BY DEF Events, KeyEvents, ButtonEvents, PlaceEvents, WheelEvents, PadEvents, GestureEvents
<1> QED
  BY <1>1 DEF Gestured, GesturesType

\* What the first m events of the list do, one after the other.
Plays(g, m) ==
    g = [n \in 0..m |->
            IF n = 0 THEN [core |-> core, gestures |-> gestures]
            ELSE IF list[n].frame # story.frame THEN g[n - 1]
            ELSE [core |-> Played(g[n - 1].core, list[n]),
                  gestures |-> Gestured(g[n - 1].gestures, list[n])]]

Then(n, before) ==
    IF list[n].frame # story.frame THEN before
    ELSE [core |-> Played(before.core, list[n]), gestures |-> Gestured(before.gestures, list[n])]

LEMMA PlaysExists ==
    ASSUME NEW m \in Nat
    PROVE  \E g : Plays(g, m)
<1> DEFINE now == [core |-> core, gestures |-> gestures]
           Solved(g, l) == /\ g = [n \in 0..l |-> g[n]]
                           /\ \A n \in 0..l : g[n] = IF n = 0 THEN now ELSE Then(n, g[n - 1])
           S == {l \in 0..m : \E g : Solved(g, l)}
<1>1. 0 \in S
  <2> DEFINE first == [n \in 0..0 |-> now]
  <2> HIDE DEF now
  <2>1. Solved(first, 0)
    OBVIOUS
  <2> HIDE DEF first, Solved
  <2> QED
    BY <2>1
<1>2. ASSUME NEW l \in 0..(m - 1), l \in S  PROVE l + 1 \in S
  <2>1. PICK g : Solved(g, l)
    BY <1>2
  <2> DEFINE new == Then(l + 1, g[l])
             h == [n \in 0..(l + 1) |-> IF n <= l THEN g[n] ELSE new]
  <2> HIDE DEF now, new
  <2>2. ASSUME NEW n \in 0..(l + 1)
        PROVE  h[n] = IF n = 0 THEN now ELSE Then(n, h[n - 1])
    <3>1. CASE n <= l
      <4>1. h[n] = g[n] /\ (n # 0 => h[n - 1] = g[n - 1]) /\ n \in 0..l
        BY <3>1
      <4> HIDE DEF h
      <4>2. g[n] = IF n = 0 THEN now ELSE Then(n, g[n - 1])
        BY <2>1, <4>1
      <4> QED
        BY <4>1, <4>2
    <3>2. CASE ~(n <= l)
      <4>1. n = l + 1 /\ h[n] = new /\ h[l] = g[l] /\ n # 0 /\ n - 1 = l
        BY <3>2
      <4> HIDE DEF h
      <4> QED
        BY <4>1 DEF new
    <3> QED
      BY <3>1, <3>2
  <2>3. h = [n \in 0..(l + 1) |-> h[n]]
    OBVIOUS
  <2>4. Solved(h, l + 1)
    <3> HIDE DEF h
    <3> QED
      BY <2>2, <2>3
  <2> HIDE DEF Solved, h
  <2> QED
    BY <2>4
<1>3. m \in S
  <2> HIDE DEF S
  <2>1. \A l \in 0..m : l \in S
    BY <1>1, <1>2, UpTo
  <2> QED
    BY <2>1
<1>4. PICK g : Solved(g, m)
  BY <1>3
<1>5. Plays(g, m)
  <2>1. [n \in 0..m |-> g[n]] = [n \in 0..m |-> IF n = 0 THEN now ELSE Then(n, g[n - 1])]
    BY <1>4, Zenon
  <2> QED
    BY <1>4, <2>1, Zenon DEF Plays, Then
<1> QED
  BY <1>5

\* An event of this frame among the first m.
Seen(m, type, id) == \E j \in 1..m : list[j] = [frame |-> story.frame, type |-> type, id |-> id]

LEMMA SeenMore ==
    ASSUME list \in Seq(Events), NEW m \in 0..(Len(list) - 1), NEW type, NEW id
    PROVE  /\ Seen(m + 1, type, id) <=>
                \/ Seen(m, type, id)
                \/ /\ list[m + 1].frame = story.frame
                   /\ list[m + 1].type = type /\ list[m + 1].id = id
           /\ Seen(m, type, id) => Seen(Len(list), type, id)
           /\ Seen(m + 1, type, id) => Seen(Len(list), type, id)
<1>1. m + 1 \in 1..Len(list) /\ \A j : j \in 1..(m + 1) <=> j \in 1..m \/ j = m + 1
  OBVIOUS
<1>2. list[m + 1] \in Events
  BY <1>1
<1>3. list[m + 1] = [frame |-> list[m + 1].frame, type |-> list[m + 1].type, id |-> list[m + 1].id]
  BY <1>2 DEF Events, KeyEvents, ButtonEvents, PlaceEvents, WheelEvents, PadEvents, GestureEvents
<1>4. list[m + 1] = [frame |-> story.frame, type |-> type, id |-> id]
        <=> /\ list[m + 1].frame = story.frame
            /\ list[m + 1].type = type /\ list[m + 1].id = id
  BY <1>3
<1>5. 1..m \subseteq 1..Len(list) /\ 1..(m + 1) \subseteq 1..Len(list)
  OBVIOUS
<1> QED
  BY <1>1, <1>4, <1>5 DEF Seen

\* Nothing is both up and down in this frame, and the mouse is in one place.
Consistent(is) ==
    LET All(type, id) == Seen(Len(list), type, id)
    IN  /\ \A k \in Keys : ~(All("KEY_UP", k) /\ All("KEY_DOWN", k))
        /\ \A b \in Buttons : /\ ~(All("MOUSE_BUTTON_UP", b) /\ All("MOUSE_BUTTON_DOWN", b))
                              /\ ~(All("TOUCH_UP", b) /\ All("TOUCH_DOWN", b))
        /\ \A p \in Spots : All("MOUSE_POSITION", p) => p = is.place

\* Where the first m events take the state.
Reached(c, was, is, m) ==
    /\ \A k \in Keys : c.keys.current[k] <=> \/ Seen(m, "KEY_DOWN", k)
                                             \/ k \in was.down /\ ~Seen(m, "KEY_UP", k)
    /\ \A b \in Buttons :
         /\ c.mouse.current[b] <=> \/ Seen(m, "MOUSE_BUTTON_DOWN", b)
                                   \/ b \in was.buttons /\ ~Seen(m, "MOUSE_BUTTON_UP", b)
         /\ c.touch.current[b] <=> \/ Seen(m, "TOUCH_DOWN", b)
                                   \/ b \in was.buttons /\ ~Seen(m, "TOUCH_UP", b)
    /\ c.mouse.position = IF Seen(m, "MOUSE_POSITION", is.place) THEN is.place ELSE was.place

KeptBefore(c) ==
    /\ c.keys.previous = core.keys.previous /\ c.mouse.previous = core.mouse.previous
    /\ c.touch.previous = core.touch.previous /\ c.mouse.previousPosition = core.mouse.previousPosition

\* An event of another frame takes the state nowhere, an event of this one where it says.
LEMMA ReachedMore ==
    ASSUME list \in Seq(Events), NEW m \in 0..(Len(list) - 1), NEW c, NEW was, NEW is \in Stills,
           Reached(c, was, is, m), Consistent(is)
    PROVE  /\ list[m + 1].frame # story.frame => Reached(c, was, is, m + 1)
           /\ \A r : list[m + 1].frame = story.frame /\ IsPlayed(c, list[m + 1], r) => Reached(r, was, is, m + 1)
<1>1. ASSUME list[m + 1].frame # story.frame
      PROVE  Reached(c, was, is, m + 1)
  <2>1. \A type, id : Seen(m + 1, type, id) <=> Seen(m, type, id)
    BY <1>1, SeenMore
  <2> QED
    BY <2>1 DEF Reached
<1>2. ASSUME NEW r, list[m + 1].frame = story.frame, IsPlayed(c, list[m + 1], r)
      PROVE  Reached(r, was, is, m + 1)
  <2>1. PICK e \in Events : e = list[m + 1]
    OBVIOUS
  <2>2. \A type, id : Seen(m + 1, type, id) <=> Seen(m, type, id) \/ (e.type = type /\ e.id = id)
    BY <1>2, <2>1, SeenMore
  <2>3. \A type, id : Seen(m, type, id) \/ Seen(m + 1, type, id) => Seen(Len(list), type, id)
    BY SeenMore
  <2>4. IsPlayed(c, e, r)
    BY <1>2, <2>1
  <2>5. ASSUME NEW k \in Keys
        PROVE  r.keys.current[k] <=> \/ Seen(m + 1, "KEY_DOWN", k)
                                     \/ k \in was.down /\ ~Seen(m + 1, "KEY_UP", k)
    <3>1. ~(Seen(m, "KEY_DOWN", k) /\ e.type = "KEY_UP" /\ e.id = k)
      BY <2>2, <2>3 DEF Consistent
    <3> QED
      BY <2>2, <2>4, <3>1 DEF IsPlayed, Reached
  <2>6. ASSUME NEW b \in Buttons
        PROVE  /\ r.mouse.current[b] <=> \/ Seen(m + 1, "MOUSE_BUTTON_DOWN", b)
                                         \/ b \in was.buttons /\ ~Seen(m + 1, "MOUSE_BUTTON_UP", b)
               /\ r.touch.current[b] <=> \/ Seen(m + 1, "TOUCH_DOWN", b)
                                         \/ b \in was.buttons /\ ~Seen(m + 1, "TOUCH_UP", b)
    <3>1. ~(Seen(m, "MOUSE_BUTTON_DOWN", b) /\ e.type = "MOUSE_BUTTON_UP" /\ e.id = b)
      BY <2>2, <2>3 DEF Consistent
    <3>2. ~(Seen(m, "TOUCH_DOWN", b) /\ e.type = "TOUCH_UP" /\ e.id = b)
      BY <2>2, <2>3 DEF Consistent
    <3>3. r.mouse.current[b] <=> \/ Seen(m + 1, "MOUSE_BUTTON_DOWN", b)
                                 \/ b \in was.buttons /\ ~Seen(m + 1, "MOUSE_BUTTON_UP", b)
      BY <2>2, <2>4, <3>1 DEF IsPlayed, Reached
    <3>4. r.touch.current[b] <=> \/ Seen(m + 1, "TOUCH_DOWN", b)
                                 \/ b \in was.buttons /\ ~Seen(m + 1, "TOUCH_UP", b)
      BY <2>2, <2>4, <3>2 DEF IsPlayed, Reached
    <3> QED
      BY <3>3, <3>4
  <2>7. r.mouse.position = IF Seen(m + 1, "MOUSE_POSITION", is.place) THEN is.place ELSE was.place
    <3>1. is.place \in Spots
      BY DEF Stills
    <3>2. e.type = "MOUSE_POSITION" => e.id = is.place
      <4>1. ASSUME e.type = "MOUSE_POSITION"  PROVE e.id \in Spots
        BY <4>1 DEF Events, KeyEvents, ButtonEvents, PlaceEvents, WheelEvents, PadEvents, GestureEvents
      <4>2. e.type = "MOUSE_POSITION" => Seen(Len(list), "MOUSE_POSITION", e.id)
        BY <2>2, <2>3
      <4> QED
        BY <4>1, <4>2 DEF Consistent
    <3>3. r.mouse.position = IF e.type = "MOUSE_POSITION" THEN e.id ELSE c.mouse.position
      BY <2>4 DEF IsPlayed
    <3>4. c.mouse.position = IF Seen(m, "MOUSE_POSITION", is.place) THEN is.place ELSE was.place
      BY DEF Reached
    <3> QED
      BY <2>2, <3>2, <3>3, <3>4
  <2> QED
    BY <2>5, <2>6, <2>7 DEF Reached
<1> QED
  BY <1>1, <1>2

LEMMA PlayIs ==
    ASSUME TypeInv, PlayAutomationEvent, NEW was \in Stills, NEW is \in Stills
    PROVE  /\ core' \in CoreType /\ gestures' \in GesturesType /\ KeptBefore(core')
           /\ Is(was) /\ Consistent(is) => Reached(core', was, is, Len(list))
<1> DEFINE N == Len(list)
           g == CHOOSE f : f = [n \in 0..N |->
                   IF n = 0 THEN [core |-> core, gestures |-> gestures]
                   ELSE IF list[n].frame # story.frame THEN f[n - 1]
                   ELSE [core |-> Played(f[n - 1].core, list[n]),
                         gestures |-> Gestured(f[n - 1].gestures, list[n])]]
<1>1. core' = g[N].core /\ gestures' = g[N].gestures
  BY Zenon DEF PlayAutomationEvent
<1>2. list \in Seq(Events) /\ N \in Nat /\ core \in CoreType /\ gestures \in GesturesType
  BY DEF TypeInv
<1> HIDE DEF N
<1>3. Plays(g, N)
  <2>1. \E f : Plays(f, N)
    BY <1>2, PlaysExists
  <2> QED
    BY <2>1, Zenon DEF Plays
<1> HIDE DEF g
<1>4. \A n \in 0..N : g[n] = IF n = 0 THEN [core |-> core, gestures |-> gestures]
                             ELSE IF list[n].frame # story.frame THEN g[n - 1]
                             ELSE [core |-> Played(g[n - 1].core, list[n]),
                                   gestures |-> Gestured(g[n - 1].gestures, list[n])]
  BY <1>3, Zenon DEF Plays
<1> DEFINE Good(m) == /\ g[m].core \in CoreType /\ g[m].gestures \in GesturesType /\ KeptBefore(g[m].core)
                      /\ Is(was) /\ Consistent(is) => Reached(g[m].core, was, is, m)
           S == {m \in 0..N : Good(m)}
<1>5. 0 \in S
  <2>1. 0 \in 0..N
    BY <1>2
  <2>2. g[0] = [core |-> core, gestures |-> gestures]
    BY <1>4, <2>1
  <2>3. g[0].core = core /\ g[0].gestures = gestures
    BY <2>2
  <2>4. \A type, id : ~Seen(0, type, id)
    BY DEF Seen
  <2>5. Is(was) => Reached(core, was, is, 0)
    BY <2>4 DEF Is, Reached
  <2>6. KeptBefore(core)
    BY DEF KeptBefore
  <2>7. Good(0)
    BY <1>2, <2>3, <2>5, <2>6
  <2> HIDE DEF Good
  <2> QED
    BY <2>1, <2>7
<1>6. ASSUME NEW m \in 0..(N - 1), m \in S  PROVE m + 1 \in S
  <2>1. m + 1 \in 0..N /\ m + 1 # 0 /\ (m + 1) - 1 = m /\ m \in 0..(Len(list) - 1) /\ m + 1 \in 1..Len(list)
    BY <1>2 DEF N
  <2>2. g[m + 1] = IF list[m + 1].frame # story.frame THEN g[m]
                   ELSE [core |-> Played(g[m].core, list[m + 1]),
                         gestures |-> Gestured(g[m].gestures, list[m + 1])]
    BY <1>4, <2>1
  <2>3. PICK c \in CoreType, gs \in GesturesType, e \in Events :
          c = g[m].core /\ gs = g[m].gestures /\ e = list[m + 1]
    BY <1>2, <1>6, <2>1
  <2>4. KeptBefore(c) /\ (Is(was) /\ Consistent(is) => Reached(c, was, is, m))
    BY <1>6, <2>3
  <2>5. CASE e.frame # story.frame
    <3>1. g[m + 1].core = c /\ g[m + 1].gestures = gs
      BY <2>2, <2>3, <2>5
    <3>2. Is(was) /\ Consistent(is) => Reached(c, was, is, m + 1)
      BY <1>2, <2>1, <2>3, <2>4, <2>5, ReachedMore
    <3>3. Good(m + 1)
      BY <2>4, <3>1, <3>2
    <3> HIDE DEF Good
    <3> QED
      BY <2>1, <3>3
  <2>6. CASE e.frame = story.frame
    <3>1. PICK r : r = Played(c, e)
      OBVIOUS
    <3>2. IsPlayed(c, e, r)
      BY <3>1, EventIsPlayed
    <3>3. g[m + 1].core = r /\ g[m + 1].gestures = Gestured(gs, e)
      BY <2>2, <2>3, <2>6, <3>1
    <3>4. Gestured(gs, e) \in GesturesType
      BY GestureIsPlayed
    <3>5. r \in CoreType /\ KeptBefore(r)
      BY <2>4, <3>2 DEF IsPlayed, KeptBefore
    <3>6. Is(was) /\ Consistent(is) => Reached(r, was, is, m + 1)
      BY <1>2, <2>1, <2>3, <2>4, <2>6, <3>2, ReachedMore
    <3>7. Good(m + 1)
      BY <3>3, <3>4, <3>5, <3>6
    <3> HIDE DEF Good
    <3> QED
      BY <2>1, <3>7
  <2> QED
    BY <2>5, <2>6
<1>7. N \in S
  <2> HIDE DEF S
  <2>1. \A m \in 0..N : m \in S
    BY <1>2, <1>5, <1>6, UpTo
  <2> QED
    BY <1>2, <2>1
<1> QED
  BY <1>1, <1>7 DEF N
-----------------------------------------------------------------------------
(* The program is told what the user does. *)

LEMMA EndPollFollows ==
    ASSUME TypeInv, Following, EndPoll
    PROVE  TypeInv' /\ Following'
<1>1. core \in CoreType /\ story \in StoryType
  BY DEF TypeInv
<1>2. /\ core' \in CoreType /\ core'.keys = core.keys /\ core'.mouse = core.mouse
      /\ core'.touch = core.touch /\ core'.pad = core.pad
      /\ core'.shouldClose = core.closing /\ core'.closing = FALSE
  BY <1>1 DEF EndPoll, CoreType
<1>3. /\ story' \in StoryType /\ story'.kind = story.kind /\ story'.frame = story.frame + 1
      /\ story.at = "polling"
      /\ story'.at = IF story.kind = "played" THEN "playing" ELSE "frame"
  <2> DEFINE at == IF story.kind = "played" THEN "playing" ELSE "frame"
  <2>1. PICK frame \in Nat : frame = story.frame + 1
    BY <1>1 DEF StoryType
  <2>2. story' = [story EXCEPT !.at = at, !.frame = frame]
    BY <2>1 DEF EndPoll
  <2>3. at \in {"frame", "polling", "playing"}
    OBVIOUS
  <2> HIDE DEF at
  <2>4. story' \in StoryType /\ story'.kind = story.kind /\ story'.frame = frame /\ story'.at = at
    BY <1>1, <2>2, <2>3 DEF StoryType
  <2> QED
    BY <2>1, <2>4 DEF at, EndPoll
<1>4. UNCHANGED <<gestures, list, user, frames>>
  BY DEF EndPoll
<1>5. TypeInv'
  BY <1>2, <1>3, <1>4 DEF TypeInv
<1>6. ASSUME story.kind # "played"
      PROVE  Held' /\ Queued' /\ Before' /\ Closing' /\ Pads'
  <2>1. Held /\ Queued /\ Before /\ Closing
    BY <1>6 DEF Following
  <2>2. Held'
    BY <1>2, <1>4, <2>1 DEF Held
  <2>3. Queued'
    <3>1. Noticed(user.pressed)' = Noticed(user.pressed)
      BY <1>4 DEF Noticed
    <3> QED
      BY <1>2, <1>3, <1>4, <1>6, <2>1, <3>1 DEF Queued
  <2>4. Before'
    BY <1>2, <1>4, <2>1 DEF Before
  <2>5. Closing'
    BY <1>2, <1>3, <1>4, <1>6, <2>1 DEF Closing
  <2>6. Pads'
    BY <1>3, <1>6 DEF Pads
  <2> QED
    BY <2>2, <2>3, <2>4, <2>5, <2>6
<1> QED
  BY <1>3, <1>5, <1>6 DEF Following

\* A window that was just opened: nothing is down, and the mouse at its origin.
LEMMA OpenedIs ==
    /\ CoreInput \in CoreType /\ GesturesAtRest \in GesturesType
    /\ CoreInput.keys.queue = <<>> /\ CoreInput.keys.repeated = {}
    /\ \A k \in Keys : ~CoreInput.keys.current[k] /\ ~CoreInput.keys.previous[k]
    /\ \A b \in Buttons : /\ ~CoreInput.mouse.current[b] /\ ~CoreInput.mouse.previous[b]
                          /\ ~CoreInput.touch.current[b] /\ ~CoreInput.touch.previous[b]
    /\ CoreInput.mouse.position = Origin /\ CoreInput.mouse.previousPosition = Origin
    /\ CoreInput.mouse.wheel = 0 /\ CoreInput.closing = FALSE /\ CoreInput.shouldClose = FALSE
    /\ GesturesAtRest.current = "NONE"
<1>1. /\ Up(Keys) \in [Keys -> BOOLEAN] /\ Up(Buttons) \in [Buttons -> BOOLEAN]
      /\ Up(PadButtons) \in [PadButtons -> BOOLEAN] /\ Origin \in Spots /\ <<>> \in Seq(Keys) /\ {} \in SUBSET Keys
      /\ 0 \in Turns
      /\ \A k \in Keys : ~Up(Keys)[k]
      /\ \A b \in Buttons : ~Up(Buttons)[b]
  BY DEF Up, Spots, Turns
<1>2. /\ CoreInput.keys \in KeysType /\ CoreInput.mouse \in MouseType /\ CoreInput.touch \in TouchType
      /\ CoreInput.pad \in PadType
  BY <1>1 DEF CoreInput, KeysType, MouseType, TouchType, PadType
<1>3. CoreInput \in CoreType
  <2>1. CoreInput = [keys |-> CoreInput.keys, mouse |-> CoreInput.mouse, touch |-> CoreInput.touch,
                     pad |-> CoreInput.pad, closing |-> FALSE, shouldClose |-> FALSE]
    BY DEF CoreInput
  <2>2. PICK keys \in KeysType, mouse \in MouseType, touch \in TouchType, pad \in PadType :
          /\ keys = CoreInput.keys /\ mouse = CoreInput.mouse /\ touch = CoreInput.touch
          /\ pad = CoreInput.pad
    BY <1>2
  <2>3. [keys |-> keys, mouse |-> mouse, touch |-> touch, pad |-> pad, closing |-> FALSE, shouldClose |-> FALSE]
          \in CoreType
    BY DEF CoreType
  <2> HIDE DEF CoreInput
  <2> QED
    BY <2>1, <2>2, <2>3
<1>4. GesturesAtRest \in GesturesType
  BY <1>1 DEF GesturesAtRest, GesturesType, Gestures
<1> QED
  BY <1>1, <1>3, <1>4 DEF CoreInput, GesturesAtRest

LEMMA InitFollows ==
    ASSUME Init
    PROVE  TypeInv /\ Following
<1>1. core = CoreInput /\ gestures = GesturesAtRest /\ list = <<>> /\ frames = <<>>
  BY DEF Init
<1>2. /\ user.keys = {} /\ user.locked = {} /\ user.buttons = {} /\ user.place = Origin /\ user.from = Origin
      /\ user.turned = 0 /\ user.pressed = <<>> /\ user.repeated = {} /\ user.read = 0
      /\ user.asksToClose = FALSE
  BY DEF Init
<1>3. user \in UserType
  <2>1. NoPad \in SeenType
    BY DEF NoPad, SeenType
  <2>2. PICK pad \in UserPad : pad = [present |-> FALSE, mapped |-> TRUE, down |-> {}, seen |-> NoPad]
    BY <2>1 DEF UserPad
  <2>3. user = [keys |-> {}, locked |-> {}, buttons |-> {}, place |-> Origin, turned |-> 0, pad |-> pad,
                pressed |-> <<>>, repeated |-> {}, read |-> 0, asksToClose |-> FALSE, from |-> Origin,
                left |-> MaxEvents]
    BY <2>2 DEF Init
  <2>4. Origin \in Spots /\ 0 \in Turns /\ MaxEvents \in Int /\ <<>> \in Seq(Keys)
    BY InputAssumption DEF Spots, Turns
  <2> QED
    BY <2>3, <2>4 DEF UserType
<1>4. story \in StoryType /\ story.at = "frame" /\ story.kind \in {"used", "recorded"}
  BY DEF Init, StoryType
<1>5. TypeInv
  <2>1. list \in Seq(Events) /\ Len(list) <= Capacity /\ frames \in Seq({})
    BY <1>1, InputAssumption
  <2> QED
    BY <1>1, <1>3, <1>4, <2>1, OpenedIs DEF TypeInv
<1>6. Held
  BY <1>1, <1>2, OpenedIs DEF Held
<1>7. Queued
  <2>1. Noticed(user.pressed) = <<>>
    BY <1>2, InputAssumption DEF Noticed
  <2> QED
    BY <1>1, <1>2, <2>1, OpenedIs DEF Queued
<1>8. Before /\ Closing /\ Pads
  BY <1>1, <1>2, <1>4, OpenedIs DEF Before, Closing, Pads
<1> QED
  BY <1>5, <1>6, <1>7, <1>8 DEF Following

LEMMA StartPlayingFollows ==
    ASSUME TypeInv, StartPlaying
    PROVE  TypeInv' /\ Following'
<1>1. user \in UserType /\ story \in StoryType /\ user.pad \in UserPad
  BY UserIs DEF TypeInv
<1>2. core' = CoreInput /\ gestures' = GesturesAtRest /\ UNCHANGED <<list, frames>>
  BY DEF StartPlaying
<1>3. story' = [story EXCEPT !.kind = "played", !.frame = 0, !.at = "playing"]
  BY DEF StartPlaying
<1>4. story' \in StoryType /\ story'.kind = "played"
  BY <1>1, <1>3 DEF StoryType
<1>5. user' \in UserType
  <2>1. NoPad \in SeenType
    BY DEF NoPad, SeenType
  <2> DEFINE pad == [user.pad EXCEPT !.seen = NoPad]
  <2>2. pad \in UserPad
    BY <1>1, <2>1 DEF UserPad
  <2>3. user' = [user EXCEPT !.left = 0, !.pressed = <<>>, !.repeated = {}, !.read = 0, !.asksToClose = FALSE,
                             !.turned = 0, !.pad = pad]
    BY <1>1 DEF StartPlaying, UserType, UserPad
  <2> HIDE DEF pad
  <2>4. <<>> \in Seq(Keys) /\ {} \in SUBSET Keys /\ 0 \in Turns
    BY DEF Turns
  <2>5. PICK none \in Seq(Keys), nobody \in SUBSET Keys, zero \in Turns, nothing \in Nat, no \in BOOLEAN :
          none = <<>> /\ nobody = {} /\ zero = 0 /\ nothing = 0 /\ no = FALSE
    BY <2>4
  <2>6. user' = [user EXCEPT !.left = nothing, !.pressed = none, !.repeated = nobody, !.read = nothing,
                             !.asksToClose = no, !.turned = zero, !.pad = pad]
    BY <2>3, <2>5
  <2>7. nothing \in Int
    OBVIOUS
  <2> QED
    BY <1>1, <2>2, <2>6, <2>7 DEF UserType
<1>6. TypeInv'
  BY <1>2, <1>4, <1>5, OpenedIs DEF TypeInv
<1> QED
  BY <1>4, <1>6 DEF Following

LEMMA PlayFollows ==
    ASSUME TypeInv, PlayAutomationEvent
    PROVE  TypeInv' /\ Following'
<1>1. core' \in CoreType /\ gestures' \in GesturesType
  <2>1. Nowhere \in Stills
    BY DEF Nowhere, Stills, Spots
  <2> QED
    BY <2>1, PlayIs
<1>2. /\ story' = [story EXCEPT !.at = "frame"] /\ story.at = "playing" /\ story \in StoryType
      /\ story.kind = "played" /\ UNCHANGED <<list, user, frames>>
  BY DEF PlayAutomationEvent, TypeInv
<1>3. story' \in StoryType /\ story'.kind = "played" /\ story'.at = "frame"
  BY <1>2 DEF StoryType
<1>4. TypeInv'
  BY <1>1, <1>2, <1>3 DEF TypeInv
<1> QED
  BY <1>3, <1>4 DEF Following

LEMMA StepFollows ==
    ASSUME TypeInv, Following, [Next]_vars
    PROVE  TypeInv' /\ Following'
<1>1. CASE UNCHANGED vars
  <2>1. UNCHANGED <<core, gestures, list, user, frames, story>>
    BY <1>1 DEF vars
  <2>2. TypeInv'
    BY <2>1 DEF TypeInv
  <2>3. Noticed(user.pressed)' = Noticed(user.pressed)
    BY <2>1 DEF Noticed
  <2>4. Pads => Pads'
    BY <2>1, PadsStay
  <2>5. Following'
    BY <2>1, <2>3, <2>4 DEF Following, Held, Queued, Before, Closing
  <2> QED
    BY <2>2, <2>5
<1>2. CASE Next
  BY <1>2, EndDrawingFollows, EndPollFollows, UserTypesFollows, UserClicksFollows, UserMovesFollows,
     UserScrollsFollows, UserClosesFollows, UserUsesPadFollows, GetKeyPressedFollows, GetCharPressedFollows,
     DisableCursorFollows, StartPlayingFollows, PlayFollows DEF Next
<1> QED
  BY <1>1, <1>2

\* What the invariant says of the answers.
LEMMA FollowingTells ==
    ASSUME TypeInv, Following
    PROVE  InputFollowsTheUser
<1> SUFFICES ASSUME story.kind # "played"  PROVE InputFollowsTheUser
  BY DEF InputFollowsTheUser
<1>1. Held /\ Queued /\ Before /\ Closing /\ Pads
  BY DEF Following
<1>2. user \in UserType /\ core \in CoreType
  BY DEF TypeInv
<1>3. /\ user.keys \subseteq Keys /\ user.locked \subseteq Keys /\ user.pressed \in Seq(Keys)
      /\ user.repeated \subseteq Keys /\ user.buttons \subseteq Buttons
  BY <1>2, UserIs
<1> DEFINE keysDown == user.keys \cup user.locked
           known == Len(user.pressed) < QueueSize
           queued == SubSeq(user.pressed, 1, IF known THEN Len(user.pressed) ELSE QueueSize)
<1>4. Answers.down = keysDown /\ Answers.up = Keys \ keysDown
  BY <1>1, <1>3 DEF Answers, IsKeyDown, IsKeyUp, Held
<1>5. ASSUME NEW b \in Buttons
      PROVE  /\ IsMouseButtonDown(b) = (b \in user.buttons)
             /\ IsMouseButtonUp(b) = (b \notin user.buttons)
  <2>1. core.mouse \in MouseType /\ core.touch \in TouchType
    BY <1>2, CoreIs
  <2>2. core.mouse.current[b] \in BOOLEAN /\ core.touch.current[b] \in BOOLEAN
    BY <2>1 DEF MouseType, TouchType
  <2>3. IsMouseButtonDown(b) \in BOOLEAN /\ IsMouseButtonUp(b) \in BOOLEAN
    BY <2>2 DEF IsMouseButtonDown, IsMouseButtonUp
  <2>4. IsMouseButtonDown(b) <=> b \in user.buttons
    BY <1>1 DEF IsMouseButtonDown, Held
  <2>5. IsMouseButtonUp(b) <=> b \notin user.buttons
    BY <1>1 DEF IsMouseButtonUp, Held
  <2> QED
    BY <2>3, <2>4, <2>5
<1>6. core.keys.queue = SubSeq(queued, user.read + 1, Len(queued))
  BY <1>1 DEF Queued, Noticed
<1>7. GetMousePosition = user.place /\ GetMouseDelta = [i \in 1..2 |-> user.place[i] - user.from[i]]
  BY <1>1 DEF GetMousePosition, GetMouseDelta, Held
<1>8. ASSUME story.at = "frame", frames # <<>>
      PROVE  /\ Answers.pressed = keysDown \ Last(frames).down
             /\ Answers.released = Last(frames).down \ keysDown
             /\ core.shouldClose = user.asksToClose
  <2>1. Answers.pressed = {k \in Keys : IsKeyPressed(k)} /\ Answers.released = {k \in Keys : IsKeyReleased(k)}
    BY DEF Answers
  <2> HIDE DEF Answers
  <2>2. \A k \in Keys : core.keys.previous[k] <=> k \in Last(frames).down
    BY <1>1, <1>8 DEF Before
  <2>3. \A k \in Keys : core.keys.current[k] <=> k \in keysDown
    BY <1>1 DEF Held
  <2>5. Last(frames).down \subseteq Keys
    BY <1>1, <1>8 DEF Before
  <2>4. /\ \A k \in Keys : IsKeyPressed(k) <=> k \in keysDown \ Last(frames).down
        /\ \A k \in Keys : IsKeyReleased(k) <=> k \in Last(frames).down \ keysDown
    BY <2>2, <2>3 DEF IsKeyPressed, IsKeyReleased
  <2> QED
    BY <1>1, <1>3, <1>8, <2>1, <2>4, <2>5 DEF Closing
<1>9. {k \in Keys : IsKeyPressedRepeat(k)} = user.repeated /\ GetMouseWheelMove = user.turned
  BY <1>1, <1>3 DEF IsKeyPressedRepeat, GetMouseWheelMove, Held
<1>10. story.at = "polling" => PadFollows(PadAnswers)
  BY <1>1 DEF Pads
<1> HIDE DEF Answers, PadFollows
<1> QED
  BY <1>4, <1>5, <1>6, <1>7, <1>8, <1>9, <1>10 DEF InputFollowsTheUser

(* What the program is told of keys, buttons, mouse, wheel and gamepad is  *)
(* what the user did, in every frame, for any keys and buttons and a queue *)
(* of any size.                                                            *)
THEOREM InputFollows == Spec => []InputFollowsTheUser
<1>1. Init => TypeInv /\ Following
  BY InitFollows
<1>2. TypeInv /\ Following /\ [Next]_vars => (TypeInv /\ Following)'
  BY StepFollows
<1>3. TypeInv /\ Following => InputFollowsTheUser
  BY FollowingTells
<1> QED
  BY <1>1, <1>2, <1>3, PTL DEF Spec

\* A gesture that needs a button has one, in a window that is not played.
LEMMA StepKeepsGestures ==
    ASSUME TypeInv, Following, GesturesNeedAButton, [Next]_vars
    PROVE  GesturesNeedAButton'
<1>0. /\ gestures \in GesturesType /\ user \in UserType /\ story \in StoryType /\ core \in CoreType
      /\ story.now \in Nat /\ Touching = {"TAP", "DOUBLETAP", "HOLD", "DRAG"}
  BY DEF TypeInv, StoryType, Touching
<1> HIDE DEF Touching
<1>1. ASSUME gestures' = gestures, user'.buttons = user.buttons, story'.kind = "played" \/ story'.kind = story.kind
      PROVE  GesturesNeedAButton'
  BY <1>1 DEF GesturesNeedAButton
<1>2. CASE EndDrawing
  <2>1. user'.buttons = user.buttons /\ story'.kind = story.kind
    BY <1>2, FrameEnds
  <2>2. gestures.current \notin Touching => gestures'.current \notin Touching
    BY <1>0, <1>2, UpdatedIs DEF EndDrawing
  <2> QED
    BY <1>0, <2>1, <2>2 DEF GesturesNeedAButton
<1>3. CASE EndPoll
  BY <1>0, <1>1, <1>3 DEF EndPoll, StoryType
<1>4. CASE UserTypes \/ UserScrolls \/ UserCloses
  <2>1. gestures' = gestures /\ story' = story
    BY <1>4 DEF UserTypes, UserScrolls, UserCloses, Does
  <2>2. user'.buttons = user.buttons
    <3>1. ASSUME UserTypes  PROVE user'.buttons = user.buttons
      <4>1. PICK keys, locked, pressed, repeated :
              Does([user EXCEPT !.keys = keys, !.locked = locked, !.pressed = pressed, !.repeated = repeated])
        BY <3>1 DEF UserTypes
      <4>2. PICK change : /\ change = [user EXCEPT !.keys = keys, !.locked = locked, !.pressed = pressed,
                                                   !.repeated = repeated]
                          /\ Does(change)
        BY <4>1
      <4>3. change.buttons = user.buttons
        BY <1>0, <4>2 DEF UserType
      <4>4. user' = [change EXCEPT !.left = change.left - 1]
        BY <4>2 DEF Does
      <4> QED
        BY <1>0, <4>2, <4>3, <4>4 DEF UserType
    <3>2. ASSUME UserScrolls \/ UserCloses  PROVE user'.buttons = user.buttons
      BY <1>0, <3>2 DEF UserScrolls, UserCloses, Does, UserType
    <3> QED
      BY <1>4, <3>1, <3>2
  <2> QED
    BY <1>1, <2>1, <2>2
<1>5. CASE UserMoves
  <2>1. PICK place \in Places : Does([user EXCEPT !.place = place]) /\ ProcessGestureEvent("MOVE", place)
    BY <1>5 DEF UserMoves, MouseCursorPosCallback
  <2>2. story' = story /\ user'.buttons = user.buttons
    BY <1>0, <2>1 DEF Does, UserType
  <2>3. place \in Spots
    BY DEF Spots
  <2>4. gestures.current \notin Touching => gestures'.current \notin Touching
    BY <1>0, <2>1, <2>3, GestureEventIs
  <2> QED
    BY <1>0, <2>2, <2>4 DEF GesturesNeedAButton
<1>6. CASE UserClicks
  <2>1. PICK b \in Buttons, down \in BOOLEAN :
          /\ down <=> b \notin user.buttons
          /\ Does([user EXCEPT !.buttons = IF down THEN user.buttons \cup {b} ELSE user.buttons \ {b}])
          /\ ProcessGestureEvent(IF down /\ ~core.mouse.previous[b] THEN "DOWN" ELSE "UP", core.mouse.position)
    BY <1>6 DEF UserClicks, MouseButtonCallback, GetMousePosition
  <2>2. user'.buttons = IF down THEN user.buttons \cup {b} ELSE user.buttons \ {b}
    BY <1>0, <2>1 DEF Does, UserType
  <2>3. CASE down
    <3>1. user'.buttons # {}
      BY <2>2, <2>3
    <3> QED
      BY <3>1 DEF GesturesNeedAButton
  <2>4. CASE ~down
    <3>1. ProcessGestureEvent("UP", core.mouse.position)
      BY <2>1, <2>4
    <3>2. core.mouse.position \in Spots
      BY <1>0, CoreIs DEF MouseType
    <3>3. gestures'.current \notin Touching
      BY <1>0, <3>1, <3>2, GestureEventIs
    <3> QED
      BY <1>0, <3>3 DEF GesturesNeedAButton
  <2> QED
    BY <2>3, <2>4
<1>7. CASE UserUsesPad \/ GetKeyPressed \/ GetCharPressed
  <2>1. gestures' = gestures /\ story' = story
    BY <1>7 DEF UserUsesPad, GetKeyPressed, GetCharPressed
  <2>2. user'.buttons = user.buttons
    BY <1>0, <1>7 DEF UserUsesPad, GetKeyPressed, GetCharPressed, UserType
  <2> QED
    BY <1>1, <2>1, <2>2
<1>8. CASE DisableCursor
  BY <1>0, <1>1, <1>8 DEF DisableCursor, SetMousePosition, UserType
<1>9. CASE StartPlaying \/ PlayAutomationEvent
  <2>1. story'.kind = "played"
    BY <1>0, <1>9 DEF StartPlaying, PlayAutomationEvent, StoryType, TypeInv
  <2> QED
    BY <2>1 DEF GesturesNeedAButton
<1>10. CASE UNCHANGED vars
  BY <1>1, <1>10 DEF vars
<1> QED
  BY <1>2, <1>3, <1>4, <1>5, <1>6, <1>7, <1>8, <1>9, <1>10 DEF Next

(* No tap, hold or drag without a button that is down, however many        *)
(* presses and releases came between two polls.                            *)
THEOREM GesturesHaveAButton == Spec => []GesturesNeedAButton
<1>1. Init => TypeInv /\ Following
  BY InitFollows
<1>2. TypeInv /\ Following /\ [Next]_vars => (TypeInv /\ Following)'
  BY StepFollows
<1>3. Init => GesturesNeedAButton
  BY DEF Init, GesturesAtRest, GesturesNeedAButton
<1>4. TypeInv /\ Following /\ GesturesNeedAButton /\ [Next]_vars => GesturesNeedAButton'
  BY StepKeepsGestures
<1> QED
  BY <1>1, <1>2, <1>3, <1>4, PTL DEF Spec
-----------------------------------------------------------------------------
(* Recordings. *)

LEMMA StillIs ==
    ASSUME Coherent, Len(frames) \in Nat, NEW i \in 0..Len(frames)
    PROVE  Still(i) \in Stills
<1>1. CASE i = 0
  BY <1>1 DEF Still, Nowhere, Stills, Spots
<1>2. CASE i # 0
  <2>1. i \in 1..Len(frames)
    BY <1>2
  <2> QED
    BY <2>1 DEF Coherent
<1> QED
  BY <1>1, <1>2

\* A step within a frame: what was stays, and what is, too, while a recording is played.
Untouched ==
    /\ UNCHANGED <<list, frames, story>>
    /\ core'.keys.previous = core.keys.previous /\ core'.mouse.previous = core.mouse.previous
    /\ core'.touch.previous = core.touch.previous
    /\ core'.mouse.previousPosition = core.mouse.previousPosition
    /\ story.kind = "played" =>
         /\ core'.keys.current = core.keys.current /\ core'.mouse.current = core.mouse.current
         /\ core'.touch.current = core.touch.current /\ core'.mouse.position = core.mouse.position
    /\ (\A b \in Buttons : core.touch.current[b] <=> core.mouse.current[b]) =>
         (\A b \in Buttons : core'.touch.current[b] <=> core'.mouse.current[b])

LEMMA RecordingStays ==
    ASSUME Recording, Untouched
    PROVE  Recording'
<1> SUFFICES ASSUME story.kind # "used"  PROVE Recording'
  BY DEF Recording, Untouched
<1>1. Coherent /\ NotedUntilFull /\ Recorded /\ Replayed
  BY DEF Recording
<1>2. list' = list /\ frames' = frames /\ story' = story
  BY DEF Untouched
<1>3. Coherent'
  BY <1>1, <1>2 DEF Coherent, Still, Told
<1>4. NotedUntilFull'
  BY <1>1, <1>2 DEF NotedUntilFull, Noted, On, Still
<1>5. \A i : Still(i)' = Still(i)
  BY <1>2 DEF Still
<1>6. \A was : Was(was) => Was(was)'
  BY DEF Was, Untouched
<1>7. Recorded'
  <2>1. (Was(Still(Len(frames))))' <=> Was(Still(Len(frames)))'
    OBVIOUS
  <2>2. story.kind = "recorded" => (Was(Still(Len(frames))))'
    BY <1>1, <1>2, <1>5 DEF Recorded, Was, Untouched
  <2>3. story.kind = "recorded" => (\A b \in Buttons : core'.touch.current[b] <=> core'.mouse.current[b])
    BY <1>1 DEF Recorded, Untouched
  <2> HIDE DEF Was
  <2> QED
    BY <1>1, <1>2, <2>2, <2>3 DEF Recorded
<1>8. Replayed'
  <2> SUFFICES ASSUME story.kind = "played"  PROVE Replayed'
    BY <1>2 DEF Replayed
  <2>1. /\ core'.keys.current = core.keys.current /\ core'.mouse.current = core.mouse.current
        /\ core'.touch.current = core.touch.current /\ core'.mouse.position = core.mouse.position
        /\ core'.keys.previous = core.keys.previous /\ core'.mouse.previous = core.mouse.previous
        /\ core'.touch.previous = core.touch.previous
        /\ core'.mouse.previousPosition = core.mouse.previousPosition
    BY DEF Untouched
  <2>2. /\ (Is(Still(story.frame)))' <=> Is(Still(story.frame))
        /\ (Is(Still(story.frame + 1)))' <=> Is(Still(story.frame + 1))
    BY <1>2, <1>5, <2>1 DEF Is
  <2>3. /\ (Was(Still(story.frame)))' <=> Was(Still(story.frame))
        /\ (Was(Still(story.frame + 1)))' <=> Was(Still(story.frame + 1))
    BY <1>2, <1>5, <2>1 DEF Was
  <2>4. /\ Whole(story.frame)' <=> Whole(story.frame)
        /\ Whole(story.frame - 1)' <=> Whole(story.frame - 1)
    BY <1>2 DEF Whole
  <2> HIDE DEF Is, Was, Whole
  <2> QED
    BY <1>1, <1>2, <2>2, <2>3, <2>4 DEF Replayed
<1> QED
  BY <1>2, <1>3, <1>4, <1>7, <1>8 DEF Recording

LEMMA UserUntouches ==
    ASSUME TypeInv, UserTypes \/ UserClicks \/ UserMoves \/ UserScrolls \/ UserCloses
    PROVE  Untouched
<1>0. core \in CoreType /\ core.keys \in KeysType /\ core.mouse \in MouseType /\ core.touch \in TouchType
  BY CoreIs DEF TypeInv
<1>1. story.kind # "played" /\ UNCHANGED <<list, frames, story>>
  BY DEF UserTypes, UserClicks, UserMoves, UserScrolls, UserCloses, Does
<1>2. CASE UserTypes
  <2>1. PICK key \in Keys, action \in {"press", "release", "repeat"}, locked \in BOOLEAN :
          LET keys == KeyCallback(core.keys, key, action, locked)
          IN  core' = [core EXCEPT !.keys = IF action = "release" THEN keys ELSE CharCallback(keys, key)]
    BY <1>2 DEF UserTypes
  <2> DEFINE called == KeyCallback(core.keys, key, action, locked)
             after == IF action = "release" THEN called ELSE CharCallback(called, key)
  <2>2. CalledBack(core.keys, key, action, locked, called)
    BY <1>0, KeyCallbackIs
  <2>3. core' = [core EXCEPT !.keys = after]
    BY <2>1
  <2> HIDE DEF called
  <2>4. after.previous = core.keys.previous
    BY <2>2, CharCallbackIs DEF CalledBack
  <2> HIDE DEF after
  <2>5. core'.keys = after /\ core'.mouse = core.mouse /\ core'.touch = core.touch
    BY <1>0, <2>3 DEF CoreType
  <2> QED
    BY <1>1, <2>4, <2>5 DEF Untouched
<1>3. CASE UserClicks
  <2>1. PICK b \in Buttons, down \in BOOLEAN :
          core' = [core EXCEPT !.mouse.current[b] = down, !.touch.current[b] = down]
    BY <1>3 DEF UserClicks, MouseButtonCallback
  <2>2. /\ core'.keys = core.keys
        /\ core'.mouse = [core.mouse EXCEPT !.current = [core.mouse.current EXCEPT ![b] = down]]
        /\ core'.touch = [core.touch EXCEPT !.current = [core.touch.current EXCEPT ![b] = down]]
    BY <1>0, <2>1, ButtonCallbackIs
  <2>3. /\ core'.mouse.previous = core.mouse.previous /\ core'.touch.previous = core.touch.previous
        /\ core'.mouse.previousPosition = core.mouse.previousPosition
        /\ core'.mouse.current = [core.mouse.current EXCEPT ![b] = down]
        /\ core'.touch.current = [core.touch.current EXCEPT ![b] = down]
    BY <1>0, <2>2 DEF MouseType, TouchType
  <2>4. ASSUME \A x \in Buttons : core.touch.current[x] <=> core.mouse.current[x]
        PROVE  \A x \in Buttons : core'.touch.current[x] <=> core'.mouse.current[x]
    BY <1>0, <2>3, <2>4 DEF MouseType, TouchType
  <2> QED
    BY <1>1, <2>2, <2>3, <2>4 DEF Untouched
<1>4. CASE UserMoves
  <2>1. PICK place : core' = [core EXCEPT !.mouse.position = place, !.touch.position = place]
    BY <1>4 DEF UserMoves, MouseCursorPosCallback
  <2>2. /\ core'.keys = core.keys /\ core'.mouse = [core.mouse EXCEPT !.position = place]
        /\ core'.touch = [core.touch EXCEPT !.position = place]
    BY <1>0, <2>1 DEF CoreType, MouseType, TouchType
  <2>3. /\ core'.mouse.previous = core.mouse.previous /\ core'.touch.previous = core.touch.previous
        /\ core'.mouse.previousPosition = core.mouse.previousPosition
        /\ core'.mouse.current = core.mouse.current /\ core'.touch.current = core.touch.current
    BY <1>0, <2>2 DEF MouseType, TouchType
  <2> QED
    BY <1>1, <2>2, <2>3 DEF Untouched
<1>5. CASE UserScrolls
  <2>1. PICK offset : core' = [core EXCEPT !.mouse.wheel = offset]
    BY <1>5 DEF UserScrolls, MouseScrollCallback
  <2>2. core'.keys = core.keys /\ core'.mouse = [core.mouse EXCEPT !.wheel = offset] /\ core'.touch = core.touch
    BY <1>0, <2>1 DEF CoreType, MouseType
  <2>3. /\ core'.mouse.previous = core.mouse.previous /\ core'.mouse.current = core.mouse.current
        /\ core'.mouse.previousPosition = core.mouse.previousPosition
    BY <1>0, <2>2 DEF MouseType
  <2> QED
    BY <1>1, <2>2, <2>3 DEF Untouched
<1>6. CASE UserCloses
  <2>1. core'.keys = core.keys /\ core'.mouse = core.mouse /\ core'.touch = core.touch
    BY <1>0, <1>6 DEF UserCloses, CoreType
  <2> QED
    BY <1>1, <2>1 DEF Untouched
<1> QED
  BY <1>2, <1>3, <1>4, <1>5, <1>6

LEMMA ProgramUntouches ==
    ASSUME TypeInv, UserUsesPad \/ GetKeyPressed \/ GetCharPressed \/ UNCHANGED vars
    PROVE  Untouched
<1>0. core \in CoreType /\ core.keys \in KeysType
  BY CoreIs DEF TypeInv
<1>1. CASE UserUsesPad \/ UNCHANGED vars
  <2>1. UNCHANGED <<core, list, frames, story>>
    BY <1>1 DEF UserUsesPad, vars
  <2> QED
    BY <2>1 DEF Untouched
<1>2. CASE GetKeyPressed \/ GetCharPressed
  <2>1. UNCHANGED <<list, frames, story>>
    BY <1>2 DEF GetKeyPressed, GetCharPressed
  <2>2. \/ \E q : core' = [core EXCEPT !.keys.queue = q]
        \/ \E q : core' = [core EXCEPT !.keys.chars = q]
    BY <1>2 DEF GetKeyPressed, GetCharPressed
  <2>3. /\ core'.mouse = core.mouse /\ core'.touch = core.touch
        /\ \E q : core'.keys = [core.keys EXCEPT !.queue = q] \/ core'.keys = [core.keys EXCEPT !.chars = q]
    BY <1>0, <2>2 DEF CoreType, KeysType
  <2>4. core'.keys.previous = core.keys.previous /\ core'.keys.current = core.keys.current
    BY <1>0, <2>3 DEF KeysType
  <2> QED
    BY <2>1, <2>3, <2>4 DEF Untouched
<1> QED
  BY <1>1, <1>2

\* The list at the end of a frame that is recorded.
LEMMA ListGrows ==
    ASSUME TypeInv, list' = RecordAutomationEvent, \A j \in DOMAIN list : list[j].frame < story.frame
    PROVE  /\ list' \in Seq(Events)
           /\ \A j \in DOMAIN list' : list'[j].frame <= story.frame
           /\ \A i \in Nat : \A type, id : i # story.frame + 1 => (On(i, type, id)' <=> On(i, type, id))
           /\ \/ \A f \in Nat : f = story.frame =>
                   \A type, id : On(f + 1, type, id)' <=> In(Event(type, id), AllOf)
              \/ Len(list') = Capacity
           /\ Len(list) = Capacity => list' = list
<1>1. list \in Seq(Events) /\ Len(list) \in Nat /\ Len(list) <= Capacity /\ story.frame \in Nat
      /\ Capacity \in Nat
  BY InputAssumption DEF TypeInv, StoryType
<1>2. AllOf \in Seq(Events) /\ Len(AllOf) \in Nat /\ \A e : In(e, AllOf) => e.frame = story.frame
  BY AllOfIs, AllNoted
<1>3. PICK all \in Seq(Events) : all = AllOf
  BY <1>2
<1>4. PICK n \in 0..Len(all) :
        /\ list' = list \o SubSeq(all, 1, n)
        /\ Len(list) + n <= Capacity
        /\ n < Len(all) => Len(list) + n = Capacity
  BY <1>3, RecordIs
<1>5. /\ list' \in Seq(Events) /\ Len(list') = Len(list) + n
      /\ \A j \in 1..Len(list) : list'[j] = list[j]
      /\ \A j \in 1..n : list'[Len(list) + j] = all[j]
  <2>1. PICK old \in Seq(Events) : old = list
    BY <1>1
  <2>2. PICK new : new = old \o SubSeq(all, 1, n)
    OBVIOUS
  <2>3. /\ new \in Seq(Events) /\ Len(new) = Len(old) + n
        /\ \A j \in 1..Len(old) : new[j] = old[j]
        /\ \A j \in 1..n : new[Len(old) + j] = all[j]
    BY <2>2, LongerList
  <2>4. list' = new
    BY <1>4, <2>1, <2>2
  <2> QED
    BY <2>1, <2>3, <2>4
<1>6. \A j \in 1..Len(all) : all[j].frame = story.frame
  BY <1>2, <1>3 DEF In
<1>7. \A j : j \in DOMAIN list' <=> j \in 1..Len(list) \/ \E l \in 1..n : j = Len(list) + l
  <2>1. DOMAIN list' = 1..(Len(list) + n) /\ n \in Nat
    BY <1>4, <1>5
  <2>2. ASSUME NEW j \in 1..(Len(list) + n), j \notin 1..Len(list)
        PROVE  \E l \in 1..n : j = Len(list) + l
    <3>1. j - Len(list) \in 1..n /\ j = Len(list) + (j - Len(list))
      BY <1>1, <2>1, <2>2
    <3> QED
      BY <3>1
  <2>3. 1..Len(list) \subseteq 1..(Len(list) + n)
    BY <1>1, <2>1
  <2>4. \A l \in 1..n : Len(list) + l \in 1..(Len(list) + n)
    BY <1>1, <2>1
  <2> QED
    BY <2>1, <2>2, <2>3, <2>4
<1>8. 1..n \subseteq 1..Len(all) /\ DOMAIN list = 1..Len(list) /\ DOMAIN all = 1..Len(all)
  BY <1>1, <1>4
<1>9. ASSUME NEW j \in DOMAIN list'  PROVE list'[j].frame <= story.frame
  <2>1. CASE j \in 1..Len(list)
    <3>1. list[j] \in Events /\ list[j].frame < story.frame
      BY <1>1, <1>8, <2>1
    <3>2. list[j].frame \in Nat
      BY <3>1 DEF Events, KeyEvents, ButtonEvents, PlaceEvents, WheelEvents, PadEvents, GestureEvents
    <3> QED
      BY <1>1, <1>5, <2>1, <3>1, <3>2
  <2>2. CASE j \notin 1..Len(list)
    <3>1. PICK l \in 1..n : j = Len(list) + l
      BY <1>7, <1>9, <2>2
    <3>2. list'[j].frame = story.frame
      BY <1>5, <1>6, <1>8, <3>1
    <3> QED
      BY <1>1, <3>2
  <2> QED
    BY <2>1, <2>2
<1>10. ASSUME NEW i \in Nat, NEW type, NEW id
       PROVE  On(i, type, id)' <=> \/ On(i, type, id)
                                   \/ \E l \in 1..n : all[l] = [frame |-> i - 1, type |-> type, id |-> id]
  <2> DEFINE e == [frame |-> i - 1, type |-> type, id |-> id]
  <2>1. On(i, type, id)' <=> \E j \in DOMAIN list' : list'[j] = e
    BY DEF On
  <2>2. On(i, type, id) <=> \E j \in 1..Len(list) : list[j] = e
    BY <1>8 DEF On
  <2> HIDE DEF e
  <2>3. (\E j \in DOMAIN list' : list'[j] = e)
          <=> (\E j \in 1..Len(list) : list[j] = e) \/ (\E l \in 1..n : all[l] = e)
    <3>1. ASSUME NEW j \in DOMAIN list', list'[j] = e
          PROVE  (\E x \in 1..Len(list) : list[x] = e) \/ (\E l \in 1..n : all[l] = e)
      <4>1. CASE j \in 1..Len(list)
        BY <1>5, <3>1, <4>1
      <4>2. ASSUME NEW l \in 1..n, j = Len(list) + l  PROVE all[l] = e
        BY <1>5, <3>1, <4>2
      <4> QED
        BY <1>7, <4>1, <4>2
    <3>2. ASSUME NEW j \in 1..Len(list), list[j] = e  PROVE \E x \in DOMAIN list' : list'[x] = e
      BY <1>5, <1>7, <3>2
    <3>3. ASSUME NEW l \in 1..n, all[l] = e  PROVE \E x \in DOMAIN list' : list'[x] = e
      BY <1>5, <1>7, <3>3
    <3> QED
      BY <3>1, <3>2, <3>3
  <2> QED
    BY <2>1, <2>2, <2>3 DEF e
<1>11. ASSUME NEW i \in Nat, NEW type, NEW id, i # story.frame + 1
       PROVE  On(i, type, id)' <=> On(i, type, id)
  <2>1. ASSUME NEW l \in 1..n  PROVE all[l] # [frame |-> i - 1, type |-> type, id |-> id]
    BY <1>1, <1>6, <1>8, <1>11
  <2> QED
    BY <1>10, <2>1
<1>12. ASSUME n = Len(all), NEW f \in Nat, f = story.frame, NEW type, NEW id
       PROVE  On(f + 1, type, id)' <=> In(Event(type, id), AllOf)
  <2>1. Event(type, id) = [frame |-> story.frame, type |-> type, id |-> id]
    BY DEF Event
  <2>2. f = story.frame
    BY <1>12
  <2>3. (f + 1) - 1 = f /\ f + 1 \in Nat
    OBVIOUS
  <2>4. On(f + 1, type, id)' <=> \/ On(f + 1, type, id)
                                 \/ \E l \in 1..n : all[l] = [frame |-> (f + 1) - 1, type |-> type, id |-> id]
    BY <1>10, <2>3
  <2>5. ~On(f + 1, type, id)
    <3> SUFFICES ASSUME NEW j \in DOMAIN list, list[j] = [frame |-> (f + 1) - 1, type |-> type, id |-> id]
                 PROVE  FALSE
      BY DEF On
    <3> QED
      BY <2>2, <2>3
  <2>6. In(Event(type, id), AllOf) <=> \E l \in 1..n : all[l] = [frame |-> f, type |-> type, id |-> id]
    BY <1>3, <1>8, <1>12, <2>1, <2>2 DEF In
  <2> QED
    BY <2>3, <2>4, <2>5, <2>6
<1>13. n # Len(all) => Len(list') = Capacity
  BY <1>4, <1>5
<1>14. Len(list) = Capacity => list' = list
  <2> SUFFICES ASSUME Len(list) = Capacity  PROVE list' = list
    OBVIOUS
  <2>1. n = 0
    BY <1>1, <1>4
  <2>2. SubSeq(all, 1, n) = <<>>
    BY <2>1
  <2> QED
    BY <1>1, <1>4, <2>2
<1> QED
  BY <1>5, <1>9, <1>11, <1>12, <1>13, <1>14

\* What is held in this frame, and where the mouse is.
This == [down |-> {k \in Keys : core.keys.current[k]}, buttons |-> {b \in Buttons : core.mouse.current[b]},
         place |-> core.mouse.position]

LEMMA ThisIs ==
    ASSUME core \in CoreType, \A b \in Buttons : core.touch.current[b] <=> core.mouse.current[b]
    PROVE  This \in Stills /\ Is(This)
<1>1. core.mouse.position \in Spots
  BY CoreIs DEF MouseType
<1>2. /\ This.down = {k \in Keys : core.keys.current[k]}
      /\ This.buttons = {b \in Buttons : core.mouse.current[b]} /\ This.place = core.mouse.position
      /\ This \in Stills
  BY <1>1 DEF This, Stills
<1> QED
  BY <1>2 DEF Is

\* One more frame, told by itself and the last one.
LEMMA FrameIsTold ==
    ASSUME Len(frames) \in Nat, \E S : frames \in Seq(S), Coherent,
           NEW is \in Stills, frames' = Append(frames, Told(Still(Len(frames)), is))
    PROVE  /\ Len(frames') = Len(frames) + 1 /\ Coherent'
           /\ \A i \in 0..Len(frames) : Still(i)' = Still(i)
           /\ \A i : i = Len(frames) + 1 => Still(i)' = is
<1>1. PICK F \in Nat : F = Len(frames)
  OBVIOUS
<1>0. PICK told : told = Told(Still(Len(frames)), is)
  OBVIOUS
<1>2. Len(frames') = F + 1 /\ frames'[F + 1] = told /\ \A i \in 1..F : frames'[i] = frames[i]
  <2>1. PICK S : frames \in Seq(S)
    OBVIOUS
  <2>2. PICK old \in Seq(S \cup {told}) : old = frames
    BY <2>1
  <2>3. told \in S \cup {told}
    OBVIOUS
  <2>4. /\ Len(Append(old, told)) = Len(old) + 1 /\ Append(old, told)[Len(old) + 1] = told
        /\ \A i \in 1..Len(old) : Append(old, told)[i] = old[i]
    BY <2>2, <2>3
  <2> QED
    BY <1>0, <1>1, <2>2, <2>4
<1>3. told.down = is.down /\ told.position = is.place
      /\ told.mouse = [b \in Buttons |-> <<b \in is.buttons \ Still(Len(frames)).buttons, b \in is.buttons,
                                           b \in Still(Len(frames)).buttons \ is.buttons, b \notin is.buttons>>]
  BY <1>0 DEF Told
<1>4. ASSUME NEW i \in 0..F  PROVE Still(i)' = Still(i)
  <2>1. i # 0 => frames'[i] = frames[i]
    BY <1>2
  <2> QED
    BY <2>1 DEF Still
<1>5. ASSUME NEW i, i = F + 1  PROVE Still(i)' = is
  <2>1. i # 0 /\ frames'[i] = told
    BY <1>2, <1>5
  <2>2. {b \in Buttons : told.mouse[b][2]} = is.buttons
    <3>1. is.buttons \subseteq Buttons
      BY DEF Stills
    <3>2. ASSUME NEW b \in Buttons  PROVE told.mouse[b][2] <=> b \in is.buttons
      <4>1. told.mouse[b] = <<b \in is.buttons \ Still(Len(frames)).buttons, b \in is.buttons,
                              b \in Still(Len(frames)).buttons \ is.buttons, b \notin is.buttons>>
        BY <1>3, Zenon
      <4>2. told.mouse[b][2] = (b \in is.buttons)
        BY <4>1
      <4> QED
        BY <4>2
    <3>3. \A b : b \in {x \in Buttons : told.mouse[x][2]} <=> b \in Buttons /\ told.mouse[b][2]
      OBVIOUS
    <3>4. \A b : b \in {x \in Buttons : told.mouse[x][2]} <=> b \in is.buttons
      BY <3>1, <3>2, <3>3, Zenon
    <3> QED
      BY <3>4, Zenon
  <2>3. Still(i)' = [down |-> told.down, buttons |-> {b \in Buttons : told.mouse[b][2]}, place |-> told.position]
    BY <2>1 DEF Still
  <2>4. Still(i)' = [down |-> is.down, buttons |-> is.buttons, place |-> is.place]
    BY <1>3, <2>2, <2>3
  <2> QED
    BY <2>4 DEF Stills
<1>6. Coherent'
  <2>1. ASSUME NEW i \in 1..(F + 1)  PROVE Still(i)' \in Stills /\ frames'[i] = Told(Still(i - 1), Still(i))'
    <3>1. CASE i = F + 1
      <4>1. Still(i)' = is /\ i - 1 = F /\ F \in 0..F
        BY <1>5, <3>1
      <4>2. Still(F)' = Still(F) /\ frames'[i] = Told(Still(F), is)
        BY <1>0, <1>1, <1>2, <1>4, <3>1, <4>1
      <4>3. Still(i - 1)' = Still(F)
        BY <4>1, <4>2
      <4> QED
        BY <4>1, <4>2, <4>3
    <3>2. CASE i # F + 1
      <4>1. i \in 1..F /\ i \in 0..F /\ i - 1 \in 0..F
        BY <3>2
      <4>2. Still(i) \in Stills /\ frames[i] = Told(Still(i - 1), Still(i))
        BY <1>1, <4>1 DEF Coherent
      <4>3. Still(i)' = Still(i) /\ Still(i - 1)' = Still(i - 1) /\ frames'[i] = frames[i]
        BY <1>2, <1>4, <4>1
      <4> QED
        BY <4>2, <4>3
    <3> QED
      BY <3>1, <3>2
  <2> QED
    BY <1>2, <2>1 DEF Coherent
<1> QED
  BY <1>1, <1>2, <1>4, <1>5, <1>6

\* The events of a frame are on the list, unless it is full by then.
LEMMA FrameIsNoted ==
    ASSUME TypeInv, NotedUntilFull, list' = RecordAutomationEvent,
           NEW was \in Stills, NEW is \in Stills, Was(was), Is(is),
           Len(frames) = story.frame, Len(frames') = Len(frames) + 1,
           \A i \in 0..Len(frames) : Still(i)' = Still(i),
           \A i : i = Len(frames) + 1 => Still(i)' = is,
           was = Still(Len(frames))
    PROVE  NotedUntilFull'
<1>1. story.frame \in Nat /\ list \in Seq(Events) /\ Capacity \in Nat /\ Capacity # 0
  BY InputAssumption DEF TypeInv, StoryType
<1>2. PICK F \in Nat : F = story.frame
  BY <1>1
<1>3. \A j \in DOMAIN list : list[j].frame < story.frame
  BY DEF NotedUntilFull
<1>4. /\ list' \in Seq(Events)
      /\ \A j \in DOMAIN list' : list'[j].frame <= F
      /\ \A i \in Nat : \A type, id : i # F + 1 => (On(i, type, id)' <=> On(i, type, id))
      /\ \/ \A type, id : On(F + 1, type, id)' <=> In(Event(type, id), AllOf)
         \/ Len(list') = Capacity
      /\ Len(list) = Capacity => list' = list
  BY <1>2, <1>3, ListGrows
<1>5. ASSUME NEW j \in DOMAIN list'  PROVE list'[j].frame < F + 1
  <2>1. list'[j] \in Events
    BY <1>4
  <2>2. list'[j].frame \in Nat
    BY <2>1 DEF Events, KeyEvents, ButtonEvents, PlaceEvents, WheelEvents, PadEvents, GestureEvents
  <2> QED
    BY <1>4, <2>2
<1>6. ASSUME NEW i \in 1..F
      PROVE  Noted(i)' \/ (Len(list') = Capacity /\ Last(list').frame <= i - 1)
  <2>1. i \in Nat /\ i # F + 1 /\ i \in 0..F /\ i - 1 \in 0..F
    OBVIOUS
  <2>2. Still(i)' = Still(i) /\ Still(i - 1)' = Still(i - 1)
    BY <1>2, <2>1
  <2>3. \A type, id : On(i, type, id)' <=> On(i, type, id)
    BY <1>4, <2>1
  <2>4. CASE Noted(i)
    <3> HIDE <1>4, <1>5
    <3>1. Noted(i)'
      BY <2>2, <2>3, <2>4 DEF Noted
    <3> QED
      BY <3>1
  <2>5. CASE ~Noted(i)
    <3>1. Len(list) = Capacity /\ Last(list).frame <= i - 1
      BY <1>2, <2>5 DEF NotedUntilFull
    <3> QED
      BY <1>4, <3>1
  <2> QED
    BY <2>4, <2>5
<1>7. ASSUME NEW i, i = F + 1
      PROVE  Noted(i)' \/ (Len(list') = Capacity /\ Last(list').frame <= i - 1)
  <2>1. Still(i)' = is /\ i - 1 = F /\ Still(F)' = was
    BY <1>2, <1>7
  <2>2. Still(i - 1)' = was
    BY <2>1
  <2>3. CASE Len(list') = Capacity
    <3>1. Last(list') = list'[Len(list')] /\ Len(list') \in DOMAIN list'
      BY <1>1, <1>4, <2>3 DEF Last
    <3> QED
      BY <1>4, <2>1, <2>3, <3>1
  <2>4. CASE \A type, id : On(i, type, id)' <=> In(Event(type, id), AllOf)
    <3>1. ASSUME NEW k \in Keys
          PROVE  /\ On(i, "KEY_DOWN", k)' <=> k \in is.down
                 /\ On(i, "KEY_UP", k)' <=> k \in was.down \ is.down
      <4>1. /\ On(i, "KEY_DOWN", k)' <=> core.keys.current[k]
            /\ On(i, "KEY_UP", k)' <=> core.keys.previous[k] /\ ~core.keys.current[k]
        BY <2>4, AllNoted
      <4>2. (core.keys.current[k] <=> k \in is.down) /\ (core.keys.previous[k] <=> k \in was.down)
        BY DEF Is, Was
      <4> QED
        BY <4>1, <4>2
    <3>2. ASSUME NEW b \in Buttons
          PROVE  /\ On(i, "MOUSE_BUTTON_DOWN", b)' <=> b \in is.buttons
                 /\ On(i, "MOUSE_BUTTON_UP", b)' <=> b \in was.buttons \ is.buttons
                 /\ On(i, "TOUCH_DOWN", b)' <=> b \in is.buttons
                 /\ On(i, "TOUCH_UP", b)' <=> b \in was.buttons \ is.buttons
      <4>1. /\ On(i, "MOUSE_BUTTON_DOWN", b)' <=> core.mouse.current[b]
            /\ On(i, "MOUSE_BUTTON_UP", b)' <=> core.mouse.previous[b] /\ ~core.mouse.current[b]
            /\ On(i, "TOUCH_DOWN", b)' <=> core.touch.current[b]
            /\ On(i, "TOUCH_UP", b)' <=> core.touch.previous[b] /\ ~core.touch.current[b]
        BY <2>4, AllNoted
      <4>2. /\ core.mouse.current[b] <=> b \in is.buttons
            /\ core.touch.current[b] <=> b \in is.buttons
            /\ core.mouse.previous[b] <=> b \in was.buttons
            /\ core.touch.previous[b] <=> b \in was.buttons
        BY DEF Is, Was
      <4> QED
        BY <4>1, <4>2
    <3>3. ASSUME NEW p \in Spots
          PROVE  On(i, "MOUSE_POSITION", p)' <=> p = is.place /\ p # was.place
      <4>1. On(i, "MOUSE_POSITION", p)' <=> /\ core.mouse.position # core.mouse.previousPosition
                                            /\ p = core.mouse.position
        BY <2>4, AllNoted
      <4>2. core.mouse.position = is.place /\ core.mouse.previousPosition = was.place
        BY DEF Is, Was
      <4> QED
        BY <4>1, <4>2
    <3>4. Noted(i)'
      BY <2>1, <2>2, <3>1, <3>2, <3>3 DEF Noted
    <3> QED
      BY <3>4
  <2> QED
    BY <1>4, <1>7, <2>3, <2>4
<1>8. ASSUME NEW i \in 1..(F + 1)
      PROVE  Noted(i)' \/ (Len(list') = Capacity /\ Last(list').frame <= i - 1)
  <2>1. i \in 1..F \/ i = F + 1
    OBVIOUS
  <2> QED
    BY <1>6, <1>7, <2>1
<1>9. Len(frames') = F + 1
  BY <1>2
<1> QED
  BY <1>5, <1>8, <1>9 DEF NotedUntilFull

LEMMA FrameIsRecorded ==
    ASSUME TypeInv, Recording, EndDrawing, story.kind = "recorded"
    PROVE  Recording'
<1>1. Coherent /\ NotedUntilFull /\ Recorded
  BY DEF Recording
<1>2. core \in CoreType /\ user \in UserType /\ story.frame \in Nat /\ \E S : frames \in Seq(S)
  BY DEF TypeInv, StoryType
<1>3. /\ story.at = "frame" /\ story'.at = "polling" /\ story'.kind = "recorded"
      /\ story'.frame = story.frame /\ story.frame < MaxFrames /\ core' = PollInputEvents
  BY FrameEnds
<1>4. list' = RecordAutomationEvent /\ frames' = Append(frames, Answers)
  BY DEF EndDrawing
<1>5. /\ Len(frames) = story.frame /\ Was(Still(Len(frames)))
      /\ \A b \in Buttons : core.touch.current[b] <=> core.mouse.current[b]
  BY <1>1, <1>2, <1>3 DEF Recorded
<1>6. PICK was \in Stills : was = Still(Len(frames))
  BY <1>1, <1>2, <1>5, StillIs
<1>7. PICK is \in Stills : is = This /\ Is(is)
  BY <1>2, <1>5, ThisIs
<1>8. Was(was)
  BY <1>5, <1>6
<1>9. frames' = Append(frames, Told(Still(Len(frames)), is))
  <2>1. Answers = Told(was, is)
    BY <1>2, <1>7, <1>8, AnswersAre
  <2> QED
    BY <1>4, <1>6, <2>1
<1>10. /\ Len(frames') = Len(frames) + 1 /\ Coherent'
       /\ \A i \in 0..Len(frames) : Still(i)' = Still(i)
       /\ \A i : i = Len(frames) + 1 => Still(i)' = is
  BY <1>1, <1>2, <1>5, <1>9, FrameIsTold
<1>11. NotedUntilFull'
  BY <1>1, <1>4, <1>5, <1>6, <1>7, <1>8, <1>10, FrameIsNoted
<1>12. /\ core'.keys.previous = core.keys.current /\ core'.mouse.previous = core.mouse.current
       /\ core'.touch.previous = core.touch.current /\ core'.mouse.previousPosition = core.mouse.position
       /\ core'.mouse.current = core.mouse.current /\ core'.touch.current = core.touch.current
  BY <1>2, <1>3, PollIs
<1>13. Still(Len(frames))' = is
  BY <1>10
<1>14. Was(Still(Len(frames)))'
  <2>1. /\ \A k \in Keys : core'.keys.previous[k] <=> k \in is.down
        /\ \A b \in Buttons : /\ core'.mouse.previous[b] <=> b \in is.buttons
                              /\ core'.touch.previous[b] <=> b \in is.buttons
        /\ core'.mouse.previousPosition = is.place
    BY <1>7, <1>12 DEF Is
  <2> QED
    BY <1>13, <2>1 DEF Was
<1>15. Recorded'
  <2>1. Len(frames') = story'.frame + 1 /\ Len(frames') <= MaxFrames
    BY InputAssumption, <1>2, <1>3, <1>5, <1>10
  <2>2. \A b \in Buttons : core'.touch.current[b] <=> core'.mouse.current[b]
    BY <1>5, <1>12
  <2> QED
    BY <1>3, <1>14, <2>1, <2>2 DEF Recorded
<1>16. Replayed'
  BY <1>3 DEF Replayed
<1> QED
  BY <1>10, <1>11, <1>15, <1>16 DEF Recording

\* Nothing is recorded in the other steps.
LEMMA FramesStay ==
    ASSUME UNCHANGED <<list, frames>>
    PROVE  /\ \A i : Still(i)' = Still(i)
           /\ \A n : Whole(n)' <=> Whole(n)
           /\ Coherent => Coherent'
           /\ NotedUntilFull => NotedUntilFull'
BY DEF Still, Whole, Coherent, Told, NotedUntilFull, Noted, On

\* A frame that is played ends.
LEMMA FrameIsPlayed ==
    ASSUME TypeInv, Recording, EndDrawing, story.kind = "played"
    PROVE  Recording'
<1>1. Coherent /\ NotedUntilFull /\ Replayed /\ core \in CoreType /\ user \in UserType /\ story.frame \in Nat
  BY DEF Recording, TypeInv, StoryType
<1>2. /\ story.at = "frame" /\ story'.at = "polling" /\ story'.kind = "played"
      /\ story'.frame = story.frame /\ story.frame < MaxFrames /\ core' = PollInputEvents
  BY FrameEnds
<1>3. UNCHANGED <<list, frames>>
  BY DEF EndDrawing
<1>4. /\ core'.keys.previous = core.keys.current /\ core'.keys.current = core.keys.current
      /\ core'.mouse.previous = core.mouse.current /\ core'.mouse.current = core.mouse.current
      /\ core'.touch.previous = core.touch.current /\ core'.touch.current = core.touch.current
      /\ core'.mouse.position = core.mouse.position /\ core'.mouse.previousPosition = core.mouse.position
  BY <1>1, <1>2, PollIs
<1>5. /\ \A i : Still(i)' = Still(i)
      /\ \A n : Whole(n)' <=> Whole(n)
      /\ Coherent' /\ NotedUntilFull'
  BY <1>1, <1>3, FramesStay
<1>6. Len(frames') = MaxFrames /\ story'.frame < MaxFrames
  BY <1>1, <1>2, <1>3 DEF Replayed
<1>7. ASSUME Whole(story.frame)' PROVE Is(Still(story.frame + 1))' /\ Was(Still(story.frame + 1))'
  <2>1. Whole(story.frame)
    BY <1>2, <1>5, <1>7
  <2>2. PICK is : is = Still(story.frame + 1)
    OBVIOUS
  <2>3. Is(is)
    BY <1>1, <1>2, <2>1, <2>2 DEF Replayed
  <2>4. Is(is)' /\ Was(is)'
    BY <1>4, <2>3 DEF Is, Was
  <2>5. Still(story.frame + 1)' = is
    BY <1>2, <1>5, <2>2
  <2> HIDE <1>4
  <2> QED
    BY <2>4, <2>5 DEF Is, Was
<1>8. Replayed'
  BY InputAssumption, <1>1, <1>2, <1>6, <1>7 DEF Replayed
<1>9. Recorded'
  BY <1>2 DEF Recorded
<1> QED
  BY <1>5, <1>8, <1>9 DEF Recording

LEMMA EndPollRecords ==
    ASSUME TypeInv, Recording, EndPoll
    PROVE  Recording'
<1>1. core \in CoreType /\ story \in StoryType /\ story.frame \in Nat
  BY DEF TypeInv, StoryType
<1>2. core'.keys = core.keys /\ core'.mouse = core.mouse /\ core'.touch = core.touch
  BY <1>1 DEF EndPoll, CoreType
<1>3. /\ story'.kind = story.kind /\ story'.frame = story.frame + 1 /\ story.at = "polling"
      /\ story'.at = IF story.kind = "played" THEN "playing" ELSE "frame"
  BY <1>1 DEF EndPoll, StoryType
<1>4. UNCHANGED <<list, frames>>
  BY DEF EndPoll
<1> SUFFICES ASSUME story.kind # "used"  PROVE Recording'
  BY <1>3 DEF Recording
<1>5. Coherent /\ NotedUntilFull /\ Recorded /\ Replayed
  BY DEF Recording
<1>6. /\ \A i : Still(i)' = Still(i)
      /\ \A n : Whole(n)' <=> Whole(n)
      /\ Coherent' /\ NotedUntilFull'
  BY <1>4, <1>5, FramesStay
<1>7. \A still : (Is(still) => Is(still)') /\ (Was(still) => Was(still)')
  BY <1>2 DEF Is, Was
<1>8. Recorded'
  <2> SUFFICES ASSUME story.kind = "recorded"  PROVE Recorded'
    BY <1>3 DEF Recorded
  <2>1. /\ Len(frames) = story.frame + 1 /\ Len(frames) <= MaxFrames /\ Was(Still(Len(frames)))
        /\ \A b \in Buttons : core.touch.current[b] <=> core.mouse.current[b]
    BY <1>3, <1>5 DEF Recorded
  <2>2. PICK still : still = Still(Len(frames))
    OBVIOUS
  <2>3. Was(still)' /\ Still(Len(frames))' = still
    BY <1>4, <1>6, <1>7, <2>1, <2>2
  <2>4. Was(Still(Len(frames)))'
    BY <2>3 DEF Was
  <2>5. Len(frames') = story'.frame + 0
    BY <1>1, <1>3, <1>4, <2>1
  <2> QED
    BY <1>2, <1>3, <1>4, <2>1, <2>4, <2>5 DEF Recorded
<1>9. Replayed'
  <2> SUFFICES ASSUME story.kind = "played"  PROVE Replayed'
    BY <1>3 DEF Replayed
  <2>1. PICK n \in Nat : n = story.frame
    BY <1>1
  <2>2. /\ Len(frames) = MaxFrames /\ n < MaxFrames
        /\ Whole(n) => Is(Still(n + 1)) /\ Was(Still(n + 1))
    BY <1>3, <1>5, <2>1 DEF Replayed
  <2>3. story'.frame = n + 1 /\ n + 1 <= MaxFrames /\ story'.frame - 1 = n /\ story'.frame # 0
    BY InputAssumption, <1>3, <2>1, <2>2
  <2>4. ASSUME Whole(story.frame - 1)'  PROVE Is(Still(story.frame))' /\ Was(Still(story.frame))'
    <3>1. Whole(n)
      BY <1>6, <2>3, <2>4
    <3>2. PICK still : still = Still(n + 1)
      OBVIOUS
    <3>3. Is(still)' /\ Was(still)'
      BY <1>7, <2>2, <3>1, <3>2
    <3>4. Still(story.frame)' = still
      BY <1>6, <2>3, <3>2
    <3> QED
      BY <3>3, <3>4 DEF Is, Was
  <2>5. story'.at = "playing" /\ Len(frames') = MaxFrames
    BY <1>3, <1>4, <2>2
  <2> QED
    BY <2>3, <2>4, <2>5 DEF Replayed
<1> QED
  BY <1>6, <1>8, <1>9 DEF Recording

LEMMA StartPlayingRecords ==
    ASSUME TypeInv, Recording, StartPlaying
    PROVE  Recording'
<1>1. story \in StoryType
  BY DEF TypeInv
<1>2. /\ story.kind = "recorded" /\ story.at = "frame" /\ story.frame = MaxFrames
      /\ core' = CoreInput /\ UNCHANGED <<list, frames>>
  BY DEF StartPlaying
<1>3. story'.kind = "played" /\ story'.frame = 0 /\ story'.at = "playing"
  BY <1>1 DEF StartPlaying, StoryType
<1>4. Coherent /\ NotedUntilFull /\ Recorded
  BY <1>2 DEF Recording
<1>5. Coherent' /\ NotedUntilFull'
  BY <1>2, <1>4, FramesStay
<1>6. Len(frames') = MaxFrames
  BY InputAssumption, <1>2, <1>4 DEF Recorded
<1>7. Is(Nowhere)' /\ Was(Nowhere)'
  BY <1>2, OpenedIs DEF Is, Was, Nowhere
<1>8. Still(story.frame)' = Nowhere
  BY <1>3 DEF Still
<1>9. Is(Still(story.frame))' /\ Was(Still(story.frame))'
  BY <1>7, <1>8 DEF Is, Was
<1>10. Replayed'
  BY InputAssumption, <1>3, <1>6, <1>9 DEF Replayed
<1>11. Recorded'
  BY <1>3 DEF Recorded
<1> QED
  BY <1>5, <1>10, <1>11 DEF Recording

\* The events of a frame bring back what was held in it.
LEMMA PlayRecords ==
    ASSUME TypeInv, Recording, PlayAutomationEvent
    PROVE  Recording'
<1>1. story \in StoryType /\ story.frame \in Nat /\ list \in Seq(Events) /\ story.at = "playing"
      /\ story.kind = "played" /\ UNCHANGED <<list, frames>>
  BY DEF TypeInv, StoryType, PlayAutomationEvent
<1>2. story'.kind = "played" /\ story'.frame = story.frame /\ story'.at = "frame"
  BY <1>1 DEF PlayAutomationEvent, StoryType
<1>3. Coherent /\ NotedUntilFull /\ Replayed
  BY <1>1 DEF Recording
<1>4. /\ \A i : Still(i)' = Still(i)
      /\ \A n : Whole(n)' <=> Whole(n)
      /\ Coherent' /\ NotedUntilFull'
  BY <1>1, <1>3, FramesStay
<1>5. PICK n \in Nat : n = story.frame
  BY <1>1
<1>6. /\ Len(frames) = MaxFrames /\ n <= MaxFrames
      /\ n = 0 \/ Whole(n - 1) => Is(Still(n)) /\ Was(Still(n))
  BY <1>1, <1>3, <1>5 DEF Replayed
<1>7. ASSUME n < MaxFrames, Whole(n)
      PROVE  Is(Still(story.frame + 1))' /\ Was(Still(story.frame))'
  <2>1. n \in 0..Len(frames) /\ n + 1 \in 0..Len(frames) /\ n + 1 \in 1..Len(frames) /\ Len(frames) \in Nat
    BY InputAssumption, <1>6, <1>7
  <2>2. PICK was \in Stills, is \in Stills : was = Still(n) /\ is = Still(n + 1)
    BY <1>3, <2>1, StillIs
  <2>3. Is(was) /\ Was(was)
    <3>1. Len(list) = Capacity => Last(list).frame \in Nat
      <4> SUFFICES ASSUME Len(list) = Capacity  PROVE Last(list).frame \in Nat
        OBVIOUS
      <4>1. Last(list) = list[Len(list)] /\ Len(list) \in 1..Len(list)
        BY InputAssumption, <1>1 DEF Last
      <4>2. Last(list) \in Events
        BY <1>1, <4>1
      <4> QED
        BY <4>2 DEF Events, KeyEvents, ButtonEvents, PlaceEvents, WheelEvents, PadEvents, GestureEvents
    <3>2. Whole(n - 1)
      BY <1>7, <3>1 DEF Whole
    <3> QED
      BY <1>6, <2>2, <3>2
  <2>4. Noted(n + 1)
    <3>1. Noted(n + 1) \/ (Len(list) = Capacity /\ Last(list).frame <= (n + 1) - 1)
      BY <1>3, <2>1 DEF NotedUntilFull
    <3>2. ASSUME Len(list) = Capacity, Last(list).frame <= (n + 1) - 1  PROVE FALSE
      <4>1. Last(list) = list[Len(list)] /\ Len(list) \in 1..Len(list)
        BY InputAssumption, <1>1, <3>2 DEF Last
      <4>2. Last(list) \in Events
        BY <1>1, <4>1
      <4>3. Last(list).frame \in Nat
        BY <4>2 DEF Events, KeyEvents, ButtonEvents, PlaceEvents, WheelEvents, PadEvents, GestureEvents
      <4> QED
        BY <1>7, <3>2, <4>3 DEF Whole
    <3> QED
      BY <3>1, <3>2
  <2>5. \A type, id : On(n + 1, type, id) <=> Seen(Len(list), type, id)
    <3>1. (n + 1) - 1 = story.frame /\ DOMAIN list = 1..Len(list)
      BY <1>1, <1>5
    <3> QED
      BY <3>1 DEF On, Seen
  <2>6. Still((n + 1) - 1) = was
    BY <2>2
  <2>7. /\ \A k \in Keys : /\ Seen(Len(list), "KEY_DOWN", k) <=> k \in is.down
                           /\ Seen(Len(list), "KEY_UP", k) <=> k \in was.down \ is.down
        /\ \A b \in Buttons :
             /\ Seen(Len(list), "MOUSE_BUTTON_DOWN", b) <=> b \in is.buttons
             /\ Seen(Len(list), "MOUSE_BUTTON_UP", b) <=> b \in was.buttons \ is.buttons
             /\ Seen(Len(list), "TOUCH_DOWN", b) <=> b \in is.buttons
             /\ Seen(Len(list), "TOUCH_UP", b) <=> b \in was.buttons \ is.buttons
        /\ \A p \in Spots : Seen(Len(list), "MOUSE_POSITION", p) <=> p = is.place /\ p # was.place
    BY <2>2, <2>4, <2>5, <2>6 DEF Noted
  <2>8. Consistent(is)
    BY <2>7 DEF Consistent
  <2>9. Reached(core', was, is, Len(list)) /\ KeptBefore(core')
    BY <2>3, <2>8, PlayIs
  <2>10. Is(is)'
    <3>1. ASSUME NEW k \in Keys  PROVE core'.keys.current[k] <=> k \in is.down
      <4>1. core'.keys.current[k] <=> \/ Seen(Len(list), "KEY_DOWN", k)
                                      \/ k \in was.down /\ ~Seen(Len(list), "KEY_UP", k)
        BY <2>9 DEF Reached
      <4> QED
        BY <2>7, <4>1
    <3>2. ASSUME NEW b \in Buttons
          PROVE  (core'.mouse.current[b] <=> b \in is.buttons) /\ (core'.touch.current[b] <=> b \in is.buttons)
      <4>1. /\ core'.mouse.current[b] <=> \/ Seen(Len(list), "MOUSE_BUTTON_DOWN", b)
                                          \/ b \in was.buttons /\ ~Seen(Len(list), "MOUSE_BUTTON_UP", b)
            /\ core'.touch.current[b] <=> \/ Seen(Len(list), "TOUCH_DOWN", b)
                                          \/ b \in was.buttons /\ ~Seen(Len(list), "TOUCH_UP", b)
        BY <2>9 DEF Reached
      <4> QED
        BY <2>7, <4>1
    <3>3. core'.mouse.position = is.place
      <4>1. is.place \in Spots
        BY DEF Stills
      <4> QED
        BY <2>7, <2>9, <4>1 DEF Reached
    <3> QED
      BY <3>1, <3>2, <3>3 DEF Is
  <2>11. Was(was)'
    BY <2>3, <2>9 DEF Was, KeptBefore
  <2>12. Still(story.frame + 1)' = is /\ Still(story.frame)' = was
    BY <1>2, <1>4, <1>5, <2>2
  <2>13. Is(Still(story.frame + 1))'
    BY <2>10, <2>12 DEF Is
  <2>14. Was(Still(story.frame))'
    BY <2>11, <2>12 DEF Was
  <2> QED
    BY <2>13, <2>14
<1>8. Whole(story.frame)' <=> Whole(n)
  BY <1>2, <1>4, <1>5
<1>9. Len(frames') = MaxFrames /\ story'.frame = n
  BY <1>1, <1>2, <1>5, <1>6
<1>10. Replayed'
  BY <1>2, <1>6, <1>7, <1>8, <1>9 DEF Replayed
<1>11. Recorded'
  BY <1>2 DEF Recorded
<1> QED
  BY <1>4, <1>10, <1>11 DEF Recording

LEMMA InitRecords ==
    ASSUME Init
    PROVE  Recording
<1>1. /\ core = CoreInput /\ list = <<>> /\ frames = <<>> /\ story.kind # "played"
      /\ story.at = "frame" /\ story.frame = 0
  BY DEF Init
<1>2. Len(frames) = 0 /\ DOMAIN list = {} /\ 1..0 = {}
  BY <1>1
<1>3. Coherent
  BY <1>2 DEF Coherent
<1>4. NotedUntilFull
  BY <1>2 DEF NotedUntilFull
<1>5. Was(Still(Len(frames))) /\ \A b \in Buttons : core.touch.current[b] <=> core.mouse.current[b]
  BY <1>1, <1>2, OpenedIs DEF Was, Still, Nowhere
<1>6. Recorded
  BY InputAssumption, <1>1, <1>2, <1>5 DEF Recorded
<1> QED
  BY <1>1, <1>3, <1>4, <1>6 DEF Recording, Replayed

LEMMA StepRecords ==
    ASSUME TypeInv, Recording, [Next]_vars
    PROVE  Recording'
<1>1. CASE EndDrawing
  <2>1. CASE story.kind = "used"
    <3>1. story'.kind = "used"
      BY <1>1, <2>1, FrameEnds
    <3> QED
      BY <3>1 DEF Recording
  <2>2. story.kind \in {"used", "recorded", "played"}
    BY DEF TypeInv, StoryType
  <2> QED
    BY <1>1, <2>1, <2>2, FrameIsRecorded, FrameIsPlayed
<1>2. CASE EndPoll
  BY <1>2, EndPollRecords
<1>3. CASE UserTypes \/ UserClicks \/ UserMoves \/ UserScrolls \/ UserCloses
  BY <1>3, UserUntouches, RecordingStays
<1>4. CASE UserUsesPad \/ GetKeyPressed \/ GetCharPressed \/ UNCHANGED vars
  BY <1>4, ProgramUntouches, RecordingStays
<1>5. CASE DisableCursor
  BY <1>5 DEF DisableCursor, Recording
<1>6. CASE StartPlaying
  BY <1>6, StartPlayingRecords
<1>7. CASE PlayAutomationEvent
  BY <1>7, PlayRecords
<1> QED
  BY <1>1, <1>2, <1>3, <1>4, <1>5, <1>6, <1>7 DEF Next

LEMMA RecordingTells ==
    ASSUME TypeInv, Recording
    PROVE  ReplaysAsRecorded
<1> SUFFICES ASSUME story.kind = "played", story.at = "frame", story.frame < MaxFrames,
                    Whole(story.frame)
             PROVE  Answers = frames[story.frame + 1]
  BY DEF ReplaysAsRecorded, Whole
<1>1. PICK n \in Nat : n = story.frame
  BY DEF TypeInv, StoryType
<1>2. Coherent /\ Len(frames) = MaxFrames /\ Is(Still(n + 1)) /\ Was(Still(n))
  BY <1>1 DEF Recording, Replayed
<1>3. n \in 0..Len(frames) /\ n + 1 \in 0..Len(frames) /\ n + 1 \in 1..Len(frames) /\ Len(frames) \in Nat
  BY InputAssumption, <1>1, <1>2
<1>4. PICK was \in Stills, is \in Stills : was = Still(n) /\ is = Still(n + 1)
  BY <1>2, <1>3, StillIs
<1>5. Answers = Told(was, is)
  BY <1>2, <1>4, AnswersAre DEF TypeInv
<1>6. frames[n + 1] = Told(Still((n + 1) - 1), Still(n + 1))
  BY <1>2, <1>3 DEF Coherent
<1>7. (n + 1) - 1 = n
  OBVIOUS
<1> QED
  BY <1>1, <1>4, <1>5, <1>6, <1>7

\* While a recording is played the program is told, about keys, buttons and the mouse, what it
\* was told when it was recorded, as long as the list of events was not full.
THEOREM RecordingsReplay == Spec => []ReplaysAsRecorded
<1>1. Init => IInv
  BY InitFollows, InitRecords DEF IInv
<1>2. IInv /\ [Next]_vars => IInv'
  BY StepFollows, StepRecords DEF IInv
<1>3. IInv => ReplaysAsRecorded
  BY RecordingTells DEF IInv
<1> QED
  BY <1>1, <1>2, <1>3, PTL DEF Spec
=============================================================================
