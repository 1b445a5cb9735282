----------------------------- MODULE DrawList_proofs -----------------------------
(***************************************************************************)
(* Proofs about DrawList: its types, and that it implements Pictures.      *)
(* The invariant says what setupScene has made (SceneInv), how far         *)
(* GiveRenderables has come (ListInv), which frames are read (FramesInv),  *)
(* and what the frame being drawn has in its buffers (WrittenInv) and in   *)
(* its command buffer (RecordedInv).                                       *)
(***************************************************************************)
EXTENDS DrawList, SequenceTheorems, FiniteSetTheorems, TLAPS

-----------------------------------------------------------------------------
(* The invariant *)

Sun == [kind |-> "DIRECTIONAL", light |-> 0]
Point(l) == [kind |-> "POINT", light |-> l]

\* setupScene makes the objects first, then the sun, then the point lights; all that
\* changes later is how the objects are turned.
SceneInv ==
  /\ Len(entities) = IF pc = "load" THEN m_obj ELSE m_obj + 1 + MAX_POINT_LIGHTS
  /\ \A k \in 1 .. m_obj : entities[k] \in Object /\ entities[k].mesh = k
  /\ pc # "load" =>
       /\ entities[m_obj + 1] = Sun
       /\ \A l \in 1 .. MAX_POINT_LIGHTS : entities[m_obj + 1 + l] = Point(l)
       /\ skybox = Sky

\* The lists of the renderer when n entities have been given to it.
Given(n) ==
  /\ Len(renderables) = IF n < m_obj THEN n ELSE m_obj
  /\ \A k \in 1 .. Len(renderables) : renderables[k] = k
  /\ Len(lights["DIRECTIONAL"]) = IF n > m_obj THEN 1 ELSE 0
  /\ \A k \in 1 .. Len(lights["DIRECTIONAL"]) : lights["DIRECTIONAL"][k] = m_obj + 1
  /\ Len(lights["POINT"]) = IF n > m_obj + 1 THEN n - (m_obj + 1) ELSE 0
  /\ \A l \in 1 .. Len(lights["POINT"]) : lights["POINT"][l] = m_obj + 1 + l

ListInv ==
  /\ pc = "load" => i = 0 /\ Given(0)
  /\ pc = "give" => i \in 1 .. Len(entities) /\ Given(i - 1)
  /\ pc \notin {"load", "give"} => Given(Len(entities))

\* The copy that was filled d turns ago.
Before(d) == IF turn >= d THEN turn - d ELSE turn + FRAME_OVERLAP - d

\* The GPU reads the copies that were filled last.
FramesInv ==
  /\ filling <=> pc \in {"objects", "record", "submit", "aborted"}
  /\ filling => ~Frames!IsRead(turn)
  /\ Len(reading) <= FRAME_OVERLAP
  /\ \A k \in 1 .. Len(reading) : reading[k] = Before(Len(reading) + 1 - k)

\* The commands of a frame see the buffers of that frame.
SetInv == \A c \in Copies : \A k \in 1 .. Len(commands[c]) : commands[c][k].set = c

ObjectWritten(k) ==
  /\ buffers[turn].transform[k] = entities[k].rotation
  /\ buffers[turn].material[k] = entities[k].material
  /\ buffers[turn].drawData[k - 1] = [transformIndex |-> k, materialIndex |-> k]

SceneWritten ==
  /\ buffers[turn].drawData[m_obj] = [transformIndex |-> m_obj + 1, materialIndex |-> m_obj + 1]
  /\ buffers[turn].material[m_obj + 1] = Sky
  /\ buffers[turn].camera = camera
  /\ buffers[turn].dirLight = 0
  /\ buffers[turn].pointLight = [l \in 1 .. MAX_POINT_LIGHTS |-> l]

\* The buffers of the frame being drawn agree with the scene as far as drawObjects
\* has come.
WrittenInv ==
  /\ pc = "objects" => i \in 0 .. m_obj /\ \A k \in 1 .. i : ObjectWritten(k)
  /\ pc \in {"record", "submit"} => SceneWritten /\ \A k \in 1 .. m_obj : ObjectWritten(k)

\* Draw k of a frame: the objects in their order, then the skybox.
DrawOf(k) ==
  IF k <= m_obj
  THEN [set |-> turn, pipeline |-> "defaultMaterial", vertex |-> k, index |-> k,
        drawDataIndex |-> k - 1]
  ELSE [set |-> turn, pipeline |-> "skyboxMaterial", vertex |-> 0, index |-> 0,
        drawDataIndex |-> m_obj]

Recorded(n) ==
  /\ Len(commands[turn]) = n
  /\ \A k \in 1 .. n : commands[turn][k] = DrawOf(k)

\* What the thread takes to be bound is what is bound.
RecordedInv ==
  /\ pc = "objects" => Recorded(0) /\ last = [pipeline |-> Undefined, mesh |-> Undefined]
  /\ pc = "record" =>
       /\ i \in 0 .. m_obj
       /\ Recorded(i)
       /\ i = 0 => last = [pipeline |-> Undefined, mesh |-> Undefined]
       /\ i > 0 =>
            /\ last = [pipeline |-> "defaultMaterial", mesh |-> i]
            /\ bound = [set |-> turn, pipeline |-> "defaultMaterial", vertex |-> i, index |-> i]
  /\ pc = "submit" => Recorded(m_obj + 1)

DrawInv ==
  TypeOK /\ SceneInv /\ ListInv /\ FramesInv /\ SetInv /\ WrittenInv /\ RecordedInv

-----------------------------------------------------------------------------
(* The scene *)

LEMMA CountsAreNumbers ==
  /\ FRAME_OVERLAP \in Nat \ {0} /\ MAX_POINT_LIGHTS \in Nat
  /\ MaxObjects \in Nat /\ Rotations \in Nat \ {0}
BY FrameOverlapAssumption, CountsAssumption

LEMMA SceneInit == Init => SceneInv
BY DEF Init, SceneInv

LEMMA SceneKept ==
  ASSUME SceneInv, UNCHANGED <<entities, m_obj, skybox>>, (pc = "load") = (pc' = "load")
  PROVE  SceneInv'
BY DEF SceneInv

\* What the first object of a model is added to, and every later one.
LEMMA ObjectCreated ==
  ASSUME TypeOK, CreateObject
  PROVE  /\ entities' \in Seq(Object \cup Light)
         /\ Len(entities') = Len(entities) + 1
         /\ m_obj' = Len(entities) + 1 /\ m_obj' \in 1 .. MaxObjects
         /\ \A k \in 1 .. Len(entities) : entities'[k] = entities[k]
         /\ entities'[m_obj'] \in Object /\ entities'[m_obj'].mesh = m_obj'
<1>1. PICK m \in Materials :
        entities' = entities \o <<[kind |-> "OBJECT", mesh |-> Len(entities) + 1,
                                   material |-> m, rotation |-> 0]>>
  BY DEF CreateObject, Created
<1> DEFINE object == [kind |-> "OBJECT", mesh |-> Len(entities) + 1, material |-> m, rotation |-> 0]
<1>2. entities \in Seq(Object \cup Light) /\ Len(entities) \in Nat /\ Len(entities) < MaxObjects
  BY LenProperties DEF TypeOK, CreateObject
<1>3. m_obj' = Len(entities) + 1 /\ m_obj' \in 1 .. MaxObjects
  BY <1>2, CountsAreNumbers DEF CreateObject
<1>4. object \in Object
  BY <1>2, CountsAreNumbers DEF Object
<1>5. object.mesh = m_obj'
  BY <1>3
<1>6. entities' = Append(entities, object)
  BY <1>1, <1>2, <1>4, AppendIsConcat
<1> HIDE DEF object
<1>7. QED
  BY <1>2, <1>3, <1>4, <1>5, <1>6, AppendProperties

LEMMA LightsCreated ==
  ASSUME TypeOK, CreateLights
  PROVE  /\ entities' \in Seq(Object \cup Light)
         /\ Len(entities') = Len(entities) + 1 + MAX_POINT_LIGHTS
         /\ \A k \in 1 .. Len(entities) : entities'[k] = entities[k]
         /\ entities'[Len(entities) + 1] = Sun
         /\ \A l \in 1 .. MAX_POINT_LIGHTS : entities'[Len(entities) + 1 + l] = Point(l)
<1> DEFINE points == [l \in 1 .. MAX_POINT_LIGHTS |-> Point(l)]
<1>1. entities' = entities \o (<<Sun>> \o points)
  BY DEF CreateLights, Created, Sun, Point
<1>2. Sun \in Light /\ \A l \in 1 .. MAX_POINT_LIGHTS : Point(l) \in Light
  BY CountsAreNumbers DEF Sun, Point, Light, LightTypes
<1> DEFINE T == Object \cup Light
<1>3. points \in Seq(T) /\ Len(points) = MAX_POINT_LIGHTS
  BY <1>2, CountsAreNumbers
<1>4. <<Sun>> \in Seq(T) /\ Len(<<Sun>>) = 1 /\ <<Sun>>[1] = Sun
  BY <1>2
<1>5. entities \in Seq(T) /\ Len(entities) \in Nat
  BY LenProperties DEF TypeOK
<1>6. \A l \in 1 .. MAX_POINT_LIGHTS : points[l] = Point(l)
  OBVIOUS
<1> HIDE DEF points, T
<1>7. /\ <<Sun>> \o points \in Seq(T)
      /\ Len(<<Sun>> \o points) = 1 + MAX_POINT_LIGHTS
      /\ (<<Sun>> \o points)[1] = Sun
      /\ \A l \in 1 .. MAX_POINT_LIGHTS : (<<Sun>> \o points)[1 + l] = Point(l)
  BY <1>3, <1>4, <1>6, ConcatProperties, CountsAreNumbers
<1> DEFINE lit == <<Sun>> \o points
<1>8. /\ lit \in Seq(T) /\ Len(lit) = 1 + MAX_POINT_LIGHTS /\ lit[1] = Sun
      /\ \A l \in 1 .. MAX_POINT_LIGHTS : lit[1 + l] = Point(l)
      /\ entities' = entities \o lit
  BY <1>1, <1>7
<1> HIDE DEF lit
<1>9. /\ entities' \in Seq(T)
      /\ Len(entities') = Len(entities) + (1 + MAX_POINT_LIGHTS)
      /\ \A k \in 1 .. Len(entities) + (1 + MAX_POINT_LIGHTS) :
           entities'[k] = IF k <= Len(entities) THEN entities[k] ELSE lit[k - Len(entities)]
  BY <1>5, <1>8, ConcatProperties
<1>10. entities'[Len(entities) + 1] = lit[1]
  BY <1>5, <1>9, CountsAreNumbers
<1>11. ASSUME NEW l \in 1 .. MAX_POINT_LIGHTS
       PROVE  entities'[Len(entities) + 1 + l] = lit[1 + l]
  BY <1>5, <1>9, <1>11, CountsAreNumbers
<1>12. \A k \in 1 .. Len(entities) : entities'[k] = entities[k]
  BY <1>5, <1>9, CountsAreNumbers
<1>13. Len(entities') = Len(entities) + 1 + MAX_POINT_LIGHTS
  BY <1>5, <1>9, CountsAreNumbers
<1>14. QED
  BY <1>8, <1>9, <1>10, <1>11, <1>12, <1>13 DEF T

\* The last object turns, and stays the object it is.
LEMMA ObjectTurned ==
  ASSUME TypeOK, SceneInv, Animate
  PROVE  /\ entities' \in Seq(Object \cup Light)
         /\ Len(entities') = Len(entities)
         /\ \A k \in 1 .. Len(entities) : k # m_obj => entities'[k] = entities[k]
         /\ \A k \in 1 .. m_obj : entities'[k] \in Object /\ entities'[k].mesh = k
<1>1. entities \in Seq(Object \cup Light) /\ Len(entities) \in Nat /\ m_obj \in 0 .. MaxObjects
  BY LenProperties DEF TypeOK
<1>2. \A k \in 1 .. m_obj : entities[k] \in Object /\ entities[k].mesh = k
  BY DEF SceneInv
<1>3. CASE m_obj = 0
  BY <1>1, <1>3 DEF Animate
<1>4. CASE m_obj # 0
  <2> DEFINE turned == [entities[m_obj] EXCEPT !.rotation = (@ + 1) % Rotations]
  <2>1. m_obj \in 1 .. m_obj /\ m_obj \in 1 .. Len(entities)
    BY <1>1, <1>4, CountsAreNumbers DEF SceneInv, Animate
  <2>2. entities' = [entities EXCEPT ![m_obj] = turned]
    BY <1>4 DEF Animate
  <2>3. entities[m_obj] \in Object /\ entities[m_obj].mesh = m_obj
    BY <1>2, <2>1
  <2>4. (entities[m_obj].rotation + 1) % Rotations \in 0 .. Rotations - 1
    BY <2>3, CountsAreNumbers DEF Object
  <2>5. turned \in Object /\ turned.mesh = m_obj
    BY <2>3, <2>4 DEF Object
  <2> HIDE DEF turned
  <2>6. /\ entities' \in Seq(Object \cup Light) /\ Len(entities') = Len(entities)
        /\ \A k \in 1 .. Len(entities) : entities'[k] = IF k = m_obj THEN turned ELSE entities[k]
    BY <1>1, <2>1, <2>2, <2>5, ExceptSeq
  <2>7. QED
    BY <1>1, <1>2, <2>1, <2>5, <2>6
<1>5. QED
  BY <1>3, <1>4

LEMMA SceneNext == TypeOK /\ SceneInv /\ [Next]_vars => SceneInv'
<1> SUFFICES ASSUME TypeOK, SceneInv, [Next]_vars PROVE SceneInv'
  OBVIOUS
<1>t. m_obj \in 0 .. MaxObjects /\ Len(entities) \in Nat /\ MAX_POINT_LIGHTS \in Nat /\ MaxObjects \in Nat
  BY LenProperties, CountsAreNumbers DEF TypeOK
<1>1. CASE CreateObject
  BY <1>1, <1>t, ObjectCreated DEF CreateObject, SceneInv
<1>2. CASE CreateLights
  BY <1>2, <1>t, LightsCreated DEF CreateLights, SceneInv
<1>3. CASE Animate
  <2>1. /\ Len(entities') = Len(entities)
        /\ \A k \in 1 .. Len(entities) : k # m_obj => entities'[k] = entities[k]
        /\ \A k \in 1 .. m_obj : entities'[k] \in Object /\ entities'[k].mesh = k
    BY <1>3, ObjectTurned
  <2>2. pc # "load" /\ pc' # "load" /\ UNCHANGED <<m_obj, skybox>>
    BY <1>3 DEF Animate
  <2>3. entities'[m_obj + 1] = entities[m_obj + 1]
    BY <1>t, <2>1, <2>2 DEF SceneInv
  <2>4. \A l \in 1 .. MAX_POINT_LIGHTS : entities'[m_obj + 1 + l] = entities[m_obj + 1 + l]
    BY <1>t, <2>1, <2>2 DEF SceneInv
  <2>5. QED
    BY <2>1, <2>2, <2>3, <2>4 DEF SceneInv
<1>4. CASE UNCHANGED vars
  BY <1>4, SceneKept DEF vars, sceneVars
<1>5. CASE GiveRenderable
  BY <1>5, SceneKept DEF GiveRenderable, sceneVars
<1>6. CASE GiveUpFrame \/ BeginFrame \/ WriteObject \/ WriteScene \/ RecordDraw \/ Submit \/ Complete
  BY <1>6, SceneKept
     DEF GiveUpFrame, BeginFrame, AfterFirst, WriteObject, WriteScene, RecordDraw, Submit,
         Complete, sceneVars
<1>7. QED
  BY <1>1, <1>2, <1>3, <1>4, <1>5, <1>6 DEF Next

-----------------------------------------------------------------------------
(* The lists of the renderer *)

LEMMA ListInit == Init => ListInv
<1> SUFFICES ASSUME Init PROVE ListInv
  OBVIOUS
<1>1. pc = "load" /\ i = 0 /\ m_obj = 0 /\ renderables = <<>>
  BY DEF Init
<1>2. lights["DIRECTIONAL"] = <<>> /\ lights["POINT"] = <<>>
  BY DEF Init, LightTypes
<1>3. Given(0)
  BY <1>1, <1>2 DEF Given
<1>4. QED
  BY <1>1, <1>3 DEF ListInv

\* Nothing but GiveRenderable touches the lists, or i while it runs.
LEMMA ListKept ==
  ASSUME ListInv, UNCHANGED <<renderables, lights, m_obj>>, Len(entities') = Len(entities),
         pc \notin {"load", "give"}, pc' \notin {"load", "give"}
  PROVE  ListInv'
BY DEF ListInv, Given

\* One entity more is given: an object as long as there are objects.
LEMMA GiveAnObject ==
  ASSUME TypeOK, SceneInv, ListInv, GiveRenderable, i <= m_obj
  PROVE  /\ renderables' = Append(renderables, i) /\ i \in 1 .. MaxObjects
         /\ UNCHANGED lights
         /\ Given(i - 1)'
<1>1. i \in 1 .. m_obj /\ m_obj \in 0 .. MaxObjects /\ MaxObjects \in Nat
  BY CountsAreNumbers DEF TypeOK, ListInv, GiveRenderable
<1>2. entities[i].kind = "OBJECT"
  BY <1>1 DEF SceneInv, Object
<1>3. renderables' = Append(renderables, i) /\ UNCHANGED <<lights, m_obj>> /\ i' - 1 = i
  BY <1>1, <1>2 DEF GiveRenderable, sceneVars
<1>4. Given(i - 1)
  BY DEF ListInv, GiveRenderable
<1>5. renderables \in Seq(1 .. MaxObjects) /\ i \in 1 .. MaxObjects
  BY <1>1 DEF TypeOK
<1>6. /\ Len(renderables') = Len(renderables) + 1
      /\ \A k \in 1 .. Len(renderables) : renderables'[k] = renderables[k]
      /\ renderables'[Len(renderables) + 1] = i
  BY <1>3, <1>5, AppendProperties
<1>7. Len(renderables) = i - 1
  BY <1>1, <1>4 DEF Given
<1>8. Len(renderables') = i /\ \A k \in 1 .. i : renderables'[k] = k
  BY <1>1, <1>4, <1>6, <1>7 DEF Given
<1>9. (Len(lights["DIRECTIONAL"]) = 0 /\ Len(lights["POINT"]) = 0)'
  BY <1>1, <1>3, <1>4 DEF Given
<1>10. Given(i - 1)'
  BY <1>1, <1>3, <1>8, <1>9 DEF Given
<1>11. QED
  BY <1>3, <1>5, <1>10

LEMMA GiveALight ==
  ASSUME TypeOK, SceneInv, ListInv, GiveRenderable, i > m_obj
  PROVE  /\ UNCHANGED renderables
         /\ entities[i].kind \in LightTypes /\ i \in 1 .. Len(entities)
         /\ lights' = [lights EXCEPT ![entities[i].kind] = Append(@, i)]
         /\ Given(i - 1)'
<1>1. /\ i \in m_obj + 1 .. m_obj + 1 + MAX_POINT_LIGHTS /\ i \in 1 .. Len(entities)
      /\ m_obj \in 0 .. MaxObjects /\ MaxObjects \in Nat /\ MAX_POINT_LIGHTS \in Nat
  BY CountsAreNumbers DEF TypeOK, SceneInv, ListInv, GiveRenderable
<1>2. entities[m_obj + 1] = Sun
      /\ \A l \in 1 .. MAX_POINT_LIGHTS : entities[m_obj + 1 + l] = Point(l)
  BY DEF SceneInv, GiveRenderable
<1>3. Given(i - 1)
  BY DEF ListInv, GiveRenderable
<1> DEFINE T == 1 .. Len(entities)
<1>4. lights \in [LightTypes -> Seq(T)] /\ UNCHANGED m_obj /\ i' - 1 = i
  BY <1>1 DEF TypeOK, GiveRenderable, sceneVars
<1> HIDE DEF T
<1>5. CASE i = m_obj + 1
  <2>1. entities[i].kind = "DIRECTIONAL"
    BY <1>2, <1>5 DEF Sun
  <2>2. UNCHANGED renderables /\ lights' = [lights EXCEPT !["DIRECTIONAL"] = Append(@, i)]
    BY <2>1 DEF GiveRenderable
  <2>3. /\ lights'["DIRECTIONAL"] = Append(lights["DIRECTIONAL"], i)
        /\ lights'["POINT"] = lights["POINT"]
    BY <1>4, <2>2 DEF LightTypes
  <2>4. lights["DIRECTIONAL"] \in Seq(T) /\ i \in T
    BY <1>1, <1>4 DEF LightTypes, T
  <2>5. Len(lights["DIRECTIONAL"]) = 0 /\ Len(lights["POINT"]) = 0
    BY <1>1, <1>3, <1>5 DEF Given
  <2>6. Len(lights'["DIRECTIONAL"]) = 1 /\ lights'["DIRECTIONAL"][1] = i
    BY <2>3, <2>4, <2>5, AppendProperties
  <2>7. Given(i - 1)'
    BY <1>1, <1>3, <1>4, <1>5, <2>2, <2>3, <2>5, <2>6 DEF Given
  <2>8. QED
    BY <1>1, <2>1, <2>2, <2>7 DEF LightTypes
<1>6. CASE i # m_obj + 1
  <2>0. i - (m_obj + 1) \in 1 .. MAX_POINT_LIGHTS /\ m_obj + 1 + (i - (m_obj + 1)) = i
    BY <1>1, <1>6
  <2>1. entities[i] = Point(i - (m_obj + 1))
    BY <1>2, <2>0
  <2>2. entities[i].kind = "POINT"
    BY <2>1 DEF Point
  <2>3. UNCHANGED renderables /\ lights' = [lights EXCEPT !["POINT"] = Append(@, i)]
    BY <2>2 DEF GiveRenderable
  <2>4. /\ lights'["POINT"] = Append(lights["POINT"], i)
        /\ lights'["DIRECTIONAL"] = lights["DIRECTIONAL"]
    BY <1>4, <2>3 DEF LightTypes
  <2>5. lights["POINT"] \in Seq(T) /\ i \in T
    BY <1>1, <1>4 DEF LightTypes, T
  <2>6. Len(lights["POINT"]) = i - 1 - (m_obj + 1)
    BY <1>1, <1>3, <1>6 DEF Given
  <2>7. /\ Len(lights'["POINT"]) = i - (m_obj + 1)
        /\ \A l \in 1 .. Len(lights["POINT"]) : lights'["POINT"][l] = lights["POINT"][l]
        /\ lights'["POINT"][i - (m_obj + 1)] = i
    BY <1>1, <2>4, <2>5, <2>6, AppendProperties
  <2>8. ASSUME NEW l \in 1 .. Len(lights'["POINT"]) PROVE lights'["POINT"][l] = m_obj + 1 + l
    <3>1. CASE l = i - (m_obj + 1)
      BY <2>0, <2>7, <3>1
    <3>2. CASE l # i - (m_obj + 1)
      <4>1. l \in 1 .. Len(lights["POINT"])
        BY <1>1, <2>0, <2>6, <2>7, <3>2
      <4>2. QED
        BY <1>3, <2>7, <4>1 DEF Given
    <3>3. QED
      BY <3>1, <3>2
  <2>9. Given(i - 1)'
    BY <1>1, <1>3, <1>4, <1>6, <2>3, <2>4, <2>7, <2>8 DEF Given
  <2>10. QED
    BY <1>1, <2>2, <2>3, <2>9 DEF LightTypes
<1>7. QED
  BY <1>5, <1>6

LEMMA ListNext == TypeOK /\ SceneInv /\ ListInv /\ [Next]_vars => ListInv'
<1> SUFFICES ASSUME TypeOK, SceneInv, ListInv, [Next]_vars PROVE ListInv'
  OBVIOUS
<1>t. m_obj \in 0 .. MaxObjects /\ Len(entities) \in Nat /\ MAX_POINT_LIGHTS \in Nat
      /\ MaxObjects \in Nat /\ i \in Nat
  BY LenProperties, CountsAreNumbers DEF TypeOK
<1>1. CASE CreateObject
  <2>1. m_obj' \in Nat /\ pc = "load" /\ pc' = "load" /\ i' = i /\ UNCHANGED <<renderables, lights>>
    BY <1>t, <1>1 DEF CreateObject, listVars
  <2>2. i = 0 /\ Given(0)
    BY <2>1 DEF ListInv
  <2>3. Len(renderables) = 0 /\ Len(lights["DIRECTIONAL"]) = 0 /\ Len(lights["POINT"]) = 0
    BY <1>t, <2>2 DEF Given
  <2>4. Given(0)'
    <3>1. /\ Len(renderables') = 0 /\ Len(lights'["DIRECTIONAL"]) = 0
          /\ Len(lights'["POINT"]) = 0
      BY <2>1, <2>3
    <3>2. m_obj' \in Nat
      BY <2>1
    <3>3. \A n \in Nat : ~(0 > n) /\ ~(0 > n + 1) /\ (IF 0 < n THEN 0 ELSE n) = 0
      OBVIOUS
    <3>4. ~(0 > m_obj') /\ ~(0 > m_obj' + 1) /\ (IF 0 < m_obj' THEN 0 ELSE m_obj') = 0
      BY <3>2, <3>3
    <3>5. 1 .. 0 = {}
      OBVIOUS
    <3>6. QED
      BY <3>1, <3>4, <3>5 DEF Given
  <2>5. QED
    BY <2>1, <2>2, <2>4 DEF ListInv
<1>2. CASE CreateLights
  <2>1. /\ pc = "load" /\ pc' = "give" /\ i' = 1 /\ UNCHANGED <<m_obj, renderables, lights>>
        /\ 1 <= Len(entities')
    BY <1>t, <1>2, LightsCreated DEF CreateLights, listVars
  <2>2. Given(0)
    BY <2>1 DEF ListInv
  <2>3. Given(0)'
    BY <2>1, <2>2 DEF Given
  <2>4. Len(entities') \in Nat /\ 1 \in 1 .. Len(entities') /\ i' - 1 = 0
    BY <1>t, <1>2, <2>1, LightsCreated
  <2>5. QED
    BY <2>1, <2>3, <2>4 DEF ListInv
<1>3. CASE GiveRenderable
  <2>1. /\ pc = "give" /\ i \in 1 .. Len(entities) /\ i' = i + 1
        /\ pc' = IF i = Len(entities) THEN "poll" ELSE "give"
        /\ entities' = entities
    BY <1>3 DEF GiveRenderable, ListInv, sceneVars
  <2>2. Given(i - 1)'
    BY <1>t, <1>3, GiveAnObject, GiveALight
  <2>3. CASE i = Len(entities)
    <3>1. i' - 1 = Len(entities')
      BY <1>t, <2>1, <2>3
    <3>2. Given(Len(entities))'
      BY <2>2, <3>1 DEF Given
    <3>3. QED
      BY <2>1, <2>3, <3>2 DEF ListInv
  <2>4. CASE i # Len(entities)
    <3>1. i' \in 1 .. Len(entities')
      BY <1>t, <2>1, <2>4
    <3>2. QED
      BY <2>1, <2>2, <2>4, <3>1 DEF ListInv
  <2>5. QED
    BY <2>3, <2>4
<1>4. CASE Animate
  <2>1. Len(entities') = Len(entities)
    BY <1>4, ObjectTurned
  <2>2. QED
    BY <1>4, <2>1, ListKept DEF Animate, listVars
<1>5. CASE UNCHANGED vars
  BY <1>5 DEF vars, sceneVars, listVars, ListInv, Given
<1>6. CASE GiveUpFrame \/ BeginFrame \/ WriteObject \/ WriteScene \/ RecordDraw \/ Submit
  BY <1>6, ListKept
     DEF GiveUpFrame, BeginFrame, AfterFirst, WriteObject, WriteScene, RecordDraw, Submit,
         sceneVars, listVars
<1>7. CASE Complete
  BY <1>7 DEF Complete, sceneVars, listVars, ListInv, Given
<1>8. QED
  BY <1>1, <1>2, <1>3, <1>4, <1>5, <1>6, <1>7 DEF Next

-----------------------------------------------------------------------------
(* The frames under way *)

LEMMA FramesInit == Init => FramesInv
<1> SUFFICES ASSUME Init PROVE FramesInv
  OBVIOUS
<1>1. reading = <<>> /\ filling = FALSE /\ pc = "load" /\ Len(reading) = 0
  BY EmptySeq DEF Init, Frames!Init
<1>2. QED
  BY <1>1, CountsAreNumbers DEF FramesInv

LEMMA ReadingLength == TypeOK => Len(reading) \in Nat /\ turn \in Copies /\ FRAME_OVERLAP \in Nat \ {0}
BY LenProperties, CountsAreNumbers DEF TypeOK

\* A frame that is filled is not the only one: there is room for it.
LEMMA RoomForOne ==
  ASSUME TypeOK, FramesInv, filling
  PROVE  Len(reading) < FRAME_OVERLAP
<1>1. Len(reading) \in Nat /\ turn \in Copies /\ FRAME_OVERLAP \in Nat \ {0}
  BY ReadingLength
<1>2. ASSUME Len(reading) = FRAME_OVERLAP PROVE FALSE
  <2>1. 1 \in 1 .. Len(reading) /\ reading[1] = Before(Len(reading))
    BY <1>1, <1>2 DEF FramesInv
  <2>2. Before(Len(reading)) = turn
    BY <1>1, <1>2 DEF Before, Copies
  <2>3. QED
    BY <2>1, <2>2 DEF FramesInv, Frames!IsRead
<1>3. QED
  BY <1>1, <1>2 DEF FramesInv

LEMMA TurnAdvanced ==
  ASSUME TypeOK, turn' = (turn + 1) % FRAME_OVERLAP
  PROVE  turn' = IF turn + 1 = FRAME_OVERLAP THEN 0 ELSE turn + 1
BY ReadingLength DEF Copies

LEMMA HandedOver ==
  ASSUME TypeOK, FramesInv, Frames!HandOver
  PROVE  /\ reading' \in Seq(Copies) /\ Len(reading') = Len(reading) + 1
         /\ Len(reading') <= FRAME_OVERLAP
         /\ turn' \in Copies
         /\ \A k \in 1 .. Len(reading) : reading'[k] = reading[k]
         /\ reading'[Len(reading) + 1] = turn
         /\ \A k \in 1 .. Len(reading') : reading'[k] = Before(Len(reading) + 1 - k)'
<1>1. Len(reading) \in Nat /\ turn \in Copies /\ FRAME_OVERLAP \in Nat \ {0}
  BY ReadingLength
<1>2. Len(reading) < FRAME_OVERLAP
  BY RoomForOne DEF Frames!HandOver
<1>3. reading' = Append(reading, turn) /\ reading \in Seq(Copies)
  BY DEF Frames!HandOver, TypeOK
<1>4. /\ reading' \in Seq(Copies) /\ Len(reading') = Len(reading) + 1
      /\ \A k \in 1 .. Len(reading) : reading'[k] = reading[k]
      /\ reading'[Len(reading) + 1] = turn
  BY <1>1, <1>3, AppendProperties
<1>5. turn' = IF turn + 1 = FRAME_OVERLAP THEN 0 ELSE turn + 1
  BY TurnAdvanced DEF Frames!HandOver
<1>6. turn' \in Copies
  BY <1>1, <1>5 DEF Copies
<1> DEFINE Earlier(t, d) == IF t >= d THEN t - d ELSE t + FRAME_OVERLAP - d
<1>7. \A d \in 0 .. FRAME_OVERLAP - 1 : Earlier(turn', d + 1) = Earlier(turn, d)
  BY <1>1, <1>5 DEF Copies
<1>8. ASSUME NEW k \in 1 .. Len(reading')
      PROVE  reading'[k] = Earlier(turn', Len(reading') + 1 - k)
  <2>1. CASE k = Len(reading) + 1
    <3>1. Earlier(turn, 0) = turn
      BY <1>1 DEF Copies
    <3>2. Len(reading') + 1 - k = 0 + 1 /\ 0 \in 0 .. FRAME_OVERLAP - 1
      BY <1>1, <1>4, <2>1
    <3>3. QED
      BY <1>4, <1>7, <2>1, <3>1, <3>2
  <2>2. CASE k # Len(reading) + 1
    <3>1. k \in 1 .. Len(reading)
      BY <1>1, <1>4, <2>2
    <3>2. reading'[k] = Earlier(turn, Len(reading) + 1 - k)
      BY <1>4, <3>1 DEF FramesInv, Before
    <3>3. /\ Len(reading) + 1 - k \in 0 .. FRAME_OVERLAP - 1
          /\ Len(reading') + 1 - k = Len(reading) + 1 - k + 1
      BY <1>1, <1>2, <1>4, <3>1
    <3>4. QED
      BY <1>7, <3>2, <3>3
  <2>3. QED
    BY <2>1, <2>2
<1>9. QED
  BY <1>1, <1>2, <1>4, <1>6, <1>8 DEF Before

LEMMA GivenBack ==
  ASSUME TypeOK, FramesInv, Frames!GiveBack
  PROVE  /\ reading' \in Seq(Copies) /\ Len(reading) \in Nat \ {0}
         /\ Len(reading') = Len(reading) - 1
         /\ \A k \in 1 .. Len(reading') : reading'[k] = reading[k + 1]
         /\ \A k \in 1 .. Len(reading') : reading'[k] = Before(Len(reading) + 1 - k)'
<1>1. Len(reading) \in Nat /\ turn \in Copies /\ FRAME_OVERLAP \in Nat \ {0}
  BY ReadingLength
<1>2. reading \in Seq(Copies) /\ reading # <<>> /\ reading' = Tail(reading) /\ turn' = turn
  BY DEF Frames!GiveBack, TypeOK
<1>3. /\ reading' \in Seq(Copies) /\ Len(reading') = Len(reading) - 1
      /\ \A k \in 1 .. Len(reading') : reading'[k] = reading[k + 1]
      /\ Len(reading) \in Nat \ {0}
  BY <1>2, HeadTailProperties, EmptySeq
<1>4. ASSUME NEW k \in 1 .. Len(reading')
      PROVE  reading'[k] = Before(Len(reading) + 1 - k)'
  <2>1. k + 1 \in 1 .. Len(reading) /\ Len(reading') + 1 - k = Len(reading) + 1 - (k + 1)
    BY <1>1, <1>3
  <2>2. reading[k + 1] = Before(Len(reading) + 1 - (k + 1))
    BY <2>1 DEF FramesInv
  <2>3. QED
    BY <1>2, <1>3, <2>1, <2>2 DEF Before
<1>5. QED
  BY <1>3, <1>4

LEMMA FramesKept ==
  ASSUME FramesInv, UNCHANGED frameVars,
         (pc \in {"objects", "record", "submit", "aborted"})
           = (pc' \in {"objects", "record", "submit", "aborted"})
  PROVE  FramesInv'
BY DEF FramesInv, Before, frameVars, Frames!IsRead

\* The steps of drawObjects leave the scene, the lists and the frames alone.
LEMMA DrawsKeep ==
  ASSUME WriteObject \/ WriteScene \/ RecordDraw
  PROVE  /\ UNCHANGED <<frameVars, sceneVars, listVars>>
         /\ pc \in {"objects", "record"} /\ pc' \in {"objects", "record", "submit"}
<1>1. CASE WriteObject
  BY <1>1 DEF WriteObject
<1>2. CASE WriteScene
  BY <1>2 DEF WriteScene
<1>3. CASE RecordDraw
  <2>1. pc = "record" /\ (pc' = "submit" \/ pc' = pc) /\ UNCHANGED <<frameVars, sceneVars, listVars>>
    BY <1>3 DEF RecordDraw
  <2>2. QED
    BY <2>1
<1>4. QED
  BY <1>1, <1>2, <1>3

LEMMA FramesNext == TypeOK /\ FramesInv /\ [Next]_vars => FramesInv'
<1> SUFFICES ASSUME TypeOK, FramesInv, [Next]_vars PROVE FramesInv'
  OBVIOUS
<1>1. CASE BeginFrame
  <2>1. /\ UNCHANGED <<turn, reading>> /\ filling' = TRUE /\ ~Frames!IsRead(turn)
        /\ pc' \in {"objects", "aborted"}
    BY <1>1 DEF BeginFrame, AfterFirst, Frames!Begin
  <2>2. QED
    BY <2>1 DEF FramesInv, Before, Frames!IsRead
<1>2. CASE Submit
  <2>1. Frames!HandOver /\ pc' = "poll" /\ filling' = FALSE
    BY <1>2 DEF Submit, Frames!HandOver
  <2>2. QED
    BY <2>1, HandedOver DEF FramesInv
<1>3. CASE Complete
  <2>1. Frames!GiveBack /\ UNCHANGED <<pc, filling, turn>>
    BY <1>3 DEF Complete, Frames!GiveBack
  <2>2. ASSUME ~Frames!IsRead(turn) PROVE ~Frames!IsRead(turn)'
    <3>1. \A k \in 1 .. Len(reading') : k + 1 \in 1 .. Len(reading) /\ reading'[k] = reading[k + 1]
      BY <2>1, GivenBack
    <3>2. QED
      BY <2>1, <2>2, <3>1 DEF Frames!IsRead
  <2>3. Len(reading') <= FRAME_OVERLAP
    BY <2>1, GivenBack, CountsAreNumbers DEF FramesInv
  <2>4. QED
    BY <2>1, <2>2, <2>3, GivenBack DEF FramesInv
<1>4. CASE UNCHANGED vars
  BY <1>4, FramesKept DEF vars
<1>5. CASE CreateObject \/ CreateLights \/ GiveRenderable \/ Animate \/ GiveUpFrame
  BY <1>5, FramesKept DEF CreateObject, CreateLights, GiveRenderable, Animate, GiveUpFrame
<1>6. CASE WriteObject \/ WriteScene \/ RecordDraw
  <2>1. UNCHANGED frameVars /\ pc \in {"objects", "record"} /\ pc' \in {"objects", "record", "submit"}
    BY <1>6, DrawsKeep
  <2>2. QED
    BY <2>1, FramesKept
<1>7. QED
  BY <1>1, <1>2, <1>3, <1>4, <1>5, <1>6 DEF Next

-----------------------------------------------------------------------------
(* The buffers and the commands of the frame being drawn *)

\* What GiveRenderables has made of the scene when drawObjects begins.
LEMMA SceneGiven ==
  ASSUME TypeOK, SceneInv, ListInv, pc \notin {"load", "give"}
  PROVE  /\ m_obj \in 0 .. MaxObjects /\ m_obj \in Nat /\ MaxObjects \in Nat
         /\ COUNT = m_obj
         /\ \A k \in 1 .. m_obj : renderables[k] = k
         /\ \A k \in 1 .. m_obj : entities[k] \in Object /\ entities[k].mesh = k
         /\ Len(lights["DIRECTIONAL"]) = 1 /\ entities[lights["DIRECTIONAL"][1]].light = 0
         /\ Len(lights["POINT"]) = MAX_POINT_LIGHTS
         /\ \A l \in 1 .. MAX_POINT_LIGHTS : entities[lights["POINT"][l]].light = l
         /\ skybox = Sky
<1>1. /\ m_obj \in 0 .. MaxObjects /\ m_obj \in Nat /\ MaxObjects \in Nat
      /\ MAX_POINT_LIGHTS \in Nat
  BY CountsAreNumbers DEF TypeOK
<1>2. Given(m_obj + 1 + MAX_POINT_LIGHTS)
  BY DEF SceneInv, ListInv
<1>3. /\ Len(renderables) = m_obj /\ Len(lights["DIRECTIONAL"]) = 1
      /\ Len(lights["POINT"]) = MAX_POINT_LIGHTS
  BY <1>1, <1>2 DEF Given
<1>4. entities[lights["DIRECTIONAL"][1]].light = 0
  <2>1. lights["DIRECTIONAL"][1] = m_obj + 1
    BY <1>2, <1>3 DEF Given
  <2>2. QED
    BY <2>1 DEF SceneInv, Sun
<1>5. ASSUME NEW l \in 1 .. MAX_POINT_LIGHTS PROVE entities[lights["POINT"][l]].light = l
  <2>1. lights["POINT"][l] = m_obj + 1 + l
    BY <1>2, <1>3 DEF Given
  <2>2. entities[m_obj + 1 + l] = Point(l)
    BY DEF SceneInv
  <2>3. QED
    BY <2>1, <2>2 DEF Point
<1>6. \A k \in 1 .. m_obj : renderables[k] = k
  BY <1>2, <1>3 DEF Given
<1>7. QED
  BY <1>1, <1>3, <1>4, <1>5, <1>6 DEF SceneInv, COUNT

\* WriteObject fills position i + 1 of the copy at turn, and draw i.
LEMMA ObjectPut ==
  ASSUME TypeOK, SceneInv, ListInv, WriteObject
  PROVE  LET k == i + 1 IN
         /\ k \in 1 .. m_obj /\ k \in Positions /\ i \in Positions
         /\ buffers' = [buffers EXCEPT ![turn] =
              [buffers[turn] EXCEPT
                 !.transform = [buffers[turn].transform EXCEPT ![k] = entities[k].rotation],
                 !.drawData = [buffers[turn].drawData EXCEPT
                                 ![i] = [transformIndex |-> k, materialIndex |-> k]],
                 !.material = [buffers[turn].material EXCEPT ![k] = entities[k].material]]]
<1>1. pc = "objects" /\ i < COUNT
  BY DEF WriteObject
<1>2. i + 1 \in 1 .. m_obj /\ i \in Positions /\ i + 1 \in Positions
  BY <1>1, SceneGiven, CountsAreNumbers DEF TypeOK, Positions
<1>3. renderables[i + 1] = i + 1
  BY <1>1, <1>2, SceneGiven
<1>4. QED
  BY <1>2, <1>3 DEF WriteObject

\* WriteScene fills what comes after the objects, from the same scene.
LEMMA ScenePut ==
  ASSUME TypeOK, SceneInv, ListInv, WriteScene
  PROVE  /\ i = m_obj /\ m_obj \in Positions /\ m_obj + 1 \in Positions
         /\ buffers' = [buffers EXCEPT ![turn] =
              [buffers[turn] EXCEPT
                 !.drawData = [buffers[turn].drawData EXCEPT
                    ![m_obj] = [transformIndex |-> m_obj + 1, materialIndex |-> m_obj + 1]],
                 !.material = [buffers[turn].material EXCEPT ![m_obj + 1] = Sky],
                 !.camera = camera,
                 !.dirLight = 0,
                 !.pointLight = [l \in 1 .. MAX_POINT_LIGHTS |-> l]]]
<1>1. pc = "objects" /\ i = COUNT
  BY DEF WriteScene
<1>2. COUNT = m_obj /\ skybox = Sky /\ m_obj \in Positions /\ m_obj + 1 \in Positions
  BY <1>1, SceneGiven DEF Positions
<1> DEFINE sun == IF Len(lights["DIRECTIONAL"]) > 0
                  THEN entities[lights["DIRECTIONAL"][1]].light ELSE Dark
<1> DEFINE points == [l \in DOMAIN buffers[turn].pointLight |->
                        IF l <= Len(lights["POINT"]) THEN entities[lights["POINT"][l]].light
                        ELSE buffers[turn].pointLight[l]]
<1>3. sun = 0
  BY <1>1, SceneGiven
<1>4. DOMAIN buffers[turn].pointLight = 1 .. MAX_POINT_LIGHTS
  BY DEF TypeOK, Buffers
<1>5. points = [l \in 1 .. MAX_POINT_LIGHTS |-> l]
  BY <1>1, <1>4, SceneGiven, CountsAreNumbers
<1>6. buffers' = [buffers EXCEPT ![turn] =
        [buffers[turn] EXCEPT
           !.drawData = [buffers[turn].drawData EXCEPT
              ![COUNT] = [transformIndex |-> COUNT + 1, materialIndex |-> COUNT + 1]],
           !.material = [buffers[turn].material EXCEPT ![COUNT + 1] = skybox],
           !.camera = camera, !.dirLight = sun, !.pointLight = points]]
  BY DEF WriteScene
<1> HIDE DEF sun, points
<1>7. QED
  BY <1>1, <1>2, <1>3, <1>5, <1>6

\* Nothing but the copy at turn is written.
LEMMA ObjectPutOver ==
  ASSUME TypeOK, SceneInv, ListInv, WriteObject
  PROVE  /\ buffers' \in [Copies -> Buffers]
         /\ \A c \in Copies : c # turn => buffers'[c] = buffers[c]
         /\ buffers'[turn].transform =
              [buffers[turn].transform EXCEPT ![i + 1] = entities[i + 1].rotation]
         /\ buffers'[turn].drawData =
              [buffers[turn].drawData EXCEPT ![i] = [transformIndex |-> i + 1,
                                                     materialIndex |-> i + 1]]
         /\ buffers'[turn].material =
              [buffers[turn].material EXCEPT ![i + 1] = entities[i + 1].material]
<1> DEFINE data == [buffers[turn] EXCEPT
                 !.transform = [buffers[turn].transform EXCEPT ![i + 1] = entities[i + 1].rotation],
                 !.drawData = [buffers[turn].drawData EXCEPT
                                 ![i] = [transformIndex |-> i + 1, materialIndex |-> i + 1]],
                 !.material = [buffers[turn].material EXCEPT ![i + 1] = entities[i + 1].material]]
<1>1. /\ buffers \in [Copies -> Buffers] /\ turn \in Copies /\ buffers[turn] \in Buffers
      /\ i \in Positions /\ i + 1 \in Positions /\ buffers' = [buffers EXCEPT ![turn] = data]
  BY ObjectPut DEF TypeOK
<1>2. pc = "objects" /\ i + 1 \in 1 .. m_obj
  BY ObjectPut DEF WriteObject
<1>3. entities[i + 1].rotation \in 0 .. Rotations - 1 /\ entities[i + 1].material \in Materials
  BY <1>2, SceneGiven DEF Object
<1>4. data \in Buffers
  BY <1>1, <1>3 DEF Buffers
<1>5. /\ data.transform =
              [buffers[turn].transform EXCEPT ![i + 1] = entities[i + 1].rotation]
      /\ data.drawData =
              [buffers[turn].drawData EXCEPT ![i] = [transformIndex |-> i + 1,
                                                     materialIndex |-> i + 1]]
      /\ data.material =
              [buffers[turn].material EXCEPT ![i + 1] = entities[i + 1].material]
  BY <1>1 DEF Buffers
<1> HIDE DEF data
<1>6. buffers' \in [Copies -> Buffers] /\ buffers'[turn] = data
      /\ \A c \in Copies : c # turn => buffers'[c] = buffers[c]
  BY <1>1, <1>4
<1>7. QED
  BY <1>5, <1>6

LEMMA ScenePutOver ==
  ASSUME TypeOK, SceneInv, ListInv, WriteScene
  PROVE  /\ buffers' \in [Copies -> Buffers]
         /\ \A c \in Copies : c # turn => buffers'[c] = buffers[c]
         /\ buffers'[turn].transform = buffers[turn].transform
         /\ buffers'[turn].drawData =
              [buffers[turn].drawData EXCEPT ![m_obj] = [transformIndex |-> m_obj + 1,
                                                         materialIndex |-> m_obj + 1]]
         /\ buffers'[turn].material = [buffers[turn].material EXCEPT ![m_obj + 1] = Sky]
         /\ buffers'[turn].camera = camera
         /\ buffers'[turn].dirLight = 0
         /\ buffers'[turn].pointLight = [l \in 1 .. MAX_POINT_LIGHTS |-> l]
<1> DEFINE data == [buffers[turn] EXCEPT
                 !.drawData = [buffers[turn].drawData EXCEPT
                    ![m_obj] = [transformIndex |-> m_obj + 1, materialIndex |-> m_obj + 1]],
                 !.material = [buffers[turn].material EXCEPT ![m_obj + 1] = Sky],
                 !.camera = camera,
                 !.dirLight = 0,
                 !.pointLight = [l \in 1 .. MAX_POINT_LIGHTS |-> l]]
<1>1. /\ buffers \in [Copies -> Buffers] /\ turn \in Copies /\ buffers[turn] \in Buffers
      /\ m_obj \in Positions /\ m_obj + 1 \in Positions /\ camera \in Views
      /\ buffers' = [buffers EXCEPT ![turn] = data]
  BY ScenePut DEF TypeOK
<1>2. 0 \in 0 .. MAX_POINT_LIGHTS
      /\ [l \in 1 .. MAX_POINT_LIGHTS |-> l] \in
            [1 .. MAX_POINT_LIGHTS -> 0 .. MAX_POINT_LIGHTS \cup {Undefined}]
  BY CountsAreNumbers
<1>3. data \in Buffers
  BY <1>1, <1>2 DEF Buffers
<1>4. /\ data.transform = buffers[turn].transform
      /\ data.drawData =
              [buffers[turn].drawData EXCEPT ![m_obj] = [transformIndex |-> m_obj + 1,
                                                         materialIndex |-> m_obj + 1]]
      /\ data.material = [buffers[turn].material EXCEPT ![m_obj + 1] = Sky]
      /\ data.camera = camera /\ data.dirLight = 0
      /\ data.pointLight = [l \in 1 .. MAX_POINT_LIGHTS |-> l]
  BY <1>1 DEF Buffers
<1> HIDE DEF data
<1>5. buffers' \in [Copies -> Buffers] /\ buffers'[turn] = data
      /\ \A c \in Copies : c # turn => buffers'[c] = buffers[c]
  BY <1>1, <1>3
<1>6. QED
  BY <1>4, <1>5

\* Whatever was not bound again is bound already: the draw that is recorded is the
\* one of the object, or of the skybox, whose turn it is.
LEMMA DrawPut ==
  ASSUME TypeOK, SceneInv, ListInv, RecordedInv, RecordDraw
  PROVE  /\ i \in 0 .. m_obj /\ m_obj \in 0 .. MaxObjects
         /\ i' = i + 1 /\ pc' = IF i = m_obj THEN "submit" ELSE "record"
         /\ commands' = [commands EXCEPT ![turn] = Append(commands[turn], DrawOf(i + 1))]
         /\ bound' = [set |-> turn, pipeline |-> DrawOf(i + 1).pipeline,
                      vertex |-> DrawOf(i + 1).vertex, index |-> DrawOf(i + 1).index]
         /\ last' = [pipeline |-> DrawOf(i + 1).pipeline, mesh |-> DrawOf(i + 1).vertex]
<1>1. pc = "record"
  BY DEF RecordDraw
<1>2. /\ i \in 0 .. m_obj
      /\ i = 0 => last = [pipeline |-> Undefined, mesh |-> Undefined]
      /\ i > 0 =>
            /\ last = [pipeline |-> "defaultMaterial", mesh |-> i]
            /\ bound = [set |-> turn, pipeline |-> "defaultMaterial", vertex |-> i, index |-> i]
  BY <1>1 DEF RecordedInv
<1>3. COUNT = m_obj /\ m_obj \in 0 .. MaxObjects /\ m_obj \in Nat
  BY <1>1, SceneGiven
<1> DEFINE pipeline == IF i # COUNT THEN "defaultMaterial" ELSE "skyboxMaterial"
           mesh == IF i # COUNT THEN entities[renderables[i + 1]].mesh ELSE 0
<1>4. pipeline = DrawOf(i + 1).pipeline
  BY <1>2, <1>3 DEF DrawOf
<1>5. mesh = DrawOf(i + 1).vertex
  <2>1. CASE i # COUNT
    <3>1. i + 1 \in 1 .. m_obj
      BY <1>2, <1>3, <2>1
    <3>2. renderables[i + 1] = i + 1 /\ entities[i + 1].mesh = i + 1
      BY <1>1, <3>1, SceneGiven
    <3>3. QED
      BY <2>1, <3>1, <3>2 DEF DrawOf
  <2>2. CASE i = COUNT
    BY <1>3, <2>2 DEF DrawOf
  <2>3. QED
    BY <2>1, <2>2
<1>6. mesh = IF i < m_obj THEN i + 1 ELSE 0
  BY <1>2, <1>3, <1>5 DEF DrawOf
<1>7. /\ mesh # last.mesh
      /\ pipeline # last.pipeline \/ (bound.set = turn /\ bound.pipeline = pipeline)
  <2>1. CASE i = 0
    <3>1. last.mesh = Undefined /\ last.pipeline = Undefined
      BY <1>2, <2>1
    <3>2. mesh \in Nat /\ pipeline \in {"defaultMaterial", "skyboxMaterial"}
      BY <1>2, <1>3, <1>6
    <3> HIDE DEF mesh, pipeline
    <3>3. QED
      BY <3>1, <3>2, ValuesAssumption
  <2>2. CASE i > 0
    <3>1. last.mesh = i /\ last.pipeline = "defaultMaterial" /\ bound.set = turn
          /\ bound.pipeline = "defaultMaterial"
      BY <1>2, <2>2
    <3>2. mesh # i
      BY <1>2, <1>3, <1>6, <2>2
    <3>3. pipeline \in {"defaultMaterial", "skyboxMaterial"}
      OBVIOUS
    <3> HIDE DEF mesh, pipeline
    <3>4. QED
      BY <3>1, <3>2, <3>3
  <2>3. QED
    BY <1>2, <1>3, <2>1, <2>2
<1>8. /\ bound' = [set |-> IF pipeline # last.pipeline THEN turn ELSE bound.set,
                   pipeline |-> IF pipeline # last.pipeline THEN pipeline ELSE bound.pipeline,
                   vertex |-> IF mesh # last.mesh THEN mesh ELSE bound.vertex,
                   index |-> IF mesh # last.mesh THEN mesh ELSE bound.index]
      /\ last' = [pipeline |-> pipeline, mesh |-> mesh]
      /\ commands' = [commands EXCEPT ![turn] = Append(commands[turn],
           [set |-> bound'.set, pipeline |-> bound'.pipeline, vertex |-> bound'.vertex,
            index |-> bound'.index, drawDataIndex |-> i])]
      /\ i' = i + 1 /\ pc' = IF i = COUNT THEN "submit" ELSE pc
  BY DEF RecordDraw
<1>9. bound' = [set |-> turn, pipeline |-> pipeline, vertex |-> mesh, index |-> mesh]
  <2> HIDE DEF mesh, pipeline
  <2>1. QED
    BY <1>7, <1>8
<1>10. DrawOf(i + 1) = [set |-> turn, pipeline |-> pipeline, vertex |-> mesh, index |-> mesh,
                        drawDataIndex |-> i]
  BY <1>2, <1>3, <1>4, <1>5 DEF DrawOf
<1> HIDE DEF mesh, pipeline
<1>11. bound'.set = turn /\ bound'.pipeline = pipeline /\ bound'.vertex = mesh
       /\ bound'.index = mesh
  BY <1>9
<1>12. commands' = [commands EXCEPT ![turn] = Append(commands[turn], DrawOf(i + 1))]
  BY <1>8, <1>10, <1>11
<1>13. DrawOf(i + 1).index = mesh
  BY <1>10
<1>14. bound' = [set |-> turn, pipeline |-> DrawOf(i + 1).pipeline,
                 vertex |-> DrawOf(i + 1).vertex, index |-> DrawOf(i + 1).index]
  BY <1>4, <1>5, <1>9, <1>13
<1>15. last' = [pipeline |-> DrawOf(i + 1).pipeline, mesh |-> DrawOf(i + 1).vertex]
  BY <1>4, <1>5, <1>8
<1>16. i' = i + 1 /\ pc' = IF i = m_obj THEN "submit" ELSE "record"
  BY <1>1, <1>3, <1>8
<1>17. QED
  BY <1>2, <1>3, <1>12, <1>14, <1>15, <1>16

LEMMA MoreRecorded ==
  ASSUME TypeOK, SceneInv, ListInv, RecordedInv, RecordDraw
  PROVE  /\ commands' \in [Copies -> Seq(DrawCommand)]
         /\ \A c \in Copies : c # turn => commands'[c] = commands[c]
         /\ Len(commands'[turn]) = i + 1
         /\ \A k \in 1 .. i + 1 : commands'[turn][k] = DrawOf(k)
<1>1. /\ i \in 0 .. m_obj /\ m_obj \in 0 .. MaxObjects /\ MaxObjects \in Nat
      /\ commands' = [commands EXCEPT ![turn] = Append(commands[turn], DrawOf(i + 1))]
  BY DrawPut, CountsAreNumbers
<1>2. /\ turn \in Copies /\ commands \in [Copies -> Seq(DrawCommand)]
      /\ commands[turn] \in Seq(DrawCommand)
  BY DEF TypeOK
<1>3. DrawOf(i + 1) \in DrawCommand
  BY <1>1, <1>2 DEF DrawOf, DrawCommand, Pipelines, Meshes, Positions
<1> DEFINE put == DrawOf(i + 1)
<1>4. Recorded(i)
  BY DEF RecordedInv, RecordDraw
<1>5. Len(commands[turn]) = i /\ \A k \in 1 .. i : commands[turn][k] = DrawOf(k)
  BY <1>4 DEF Recorded
<1>6. put \in DrawCommand /\ commands' = [commands EXCEPT ![turn] = Append(commands[turn], put)]
  BY <1>1, <1>3
<1> HIDE DEF put
<1>7. /\ Append(commands[turn], put) \in Seq(DrawCommand)
      /\ Len(Append(commands[turn], put)) = i + 1
      /\ \A k \in 1 .. i : Append(commands[turn], put)[k] = commands[turn][k]
      /\ Append(commands[turn], put)[i + 1] = put
  BY <1>2, <1>5, <1>6, AppendProperties
<1>8. commands'[turn] = Append(commands[turn], put)
  BY <1>2, <1>6
<1>9. \A k \in 1 .. i + 1 : k \in 1 .. i \/ k = i + 1
  BY <1>1
<1>10. \A k \in 1 .. i + 1 : commands'[turn][k] = DrawOf(k)
  BY <1>5, <1>7, <1>8, <1>9 DEF put
<1>11. QED
  BY <1>2, <1>6, <1>7, <1>8, <1>10

-----------------------------------------------------------------------------
(* The descriptor sets *)

LEMMA SetInit == Init => SetInv
<1> SUFFICES ASSUME Init PROVE SetInv
  OBVIOUS
<1>1. \A c \in Copies : Len(commands[c]) = 0
  BY EmptySeq DEF Init
<1>2. QED
  BY <1>1 DEF SetInv

LEMMA SetNext == DrawInv /\ [Next]_vars => SetInv'
<1> SUFFICES ASSUME DrawInv, [Next]_vars PROVE SetInv'
  OBVIOUS
<1>t. TypeOK /\ SceneInv /\ ListInv /\ SetInv /\ RecordedInv
  BY DEF DrawInv
<1>1. CASE BeginFrame
  <2>1. commands' = [commands EXCEPT ![turn] = <<>>] /\ turn \in Copies
        /\ commands \in [Copies -> Seq(DrawCommand)]
    BY <1>1, <1>t DEF BeginFrame, TypeOK
  <2>2. commands'[turn] = <<>> /\ \A c \in Copies : c # turn => commands'[c] = commands[c]
    BY <2>1
  <2>3. 1 .. Len(commands'[turn]) = {}
    BY <2>2
  <2>4. QED
    BY <1>t, <2>2, <2>3 DEF SetInv
<1>2. CASE RecordDraw
  <2>1. \A k \in 1 .. Len(commands'[turn]) : commands'[turn][k] = DrawOf(k)
    BY <1>2, <1>t, MoreRecorded
  <2>2. \A k : DrawOf(k).set = turn
    BY DEF DrawOf
  <2>3. \A c \in Copies : c # turn => commands'[c] = commands[c]
    BY <1>2, <1>t, MoreRecorded
  <2>4. QED
    BY <1>t, <2>1, <2>2, <2>3 DEF SetInv
<1>3. CASE UNCHANGED vars
  BY <1>3, <1>t DEF vars, drawVars, SetInv
<1>4. CASE CreateObject \/ CreateLights \/ GiveRenderable \/ Animate \/ GiveUpFrame
  BY <1>4, <1>t DEF CreateObject, CreateLights, GiveRenderable, Animate, GiveUpFrame, drawVars, SetInv
<1>5. CASE WriteObject
  BY <1>5, <1>t DEF WriteObject, SetInv
<1>6. CASE WriteScene
  BY <1>6, <1>t DEF WriteScene, SetInv
<1>7. CASE Submit \/ Complete
  BY <1>7, <1>t DEF Submit, Complete, drawVars, SetInv
<1>8. QED
  BY <1>1, <1>2, <1>3, <1>4, <1>5, <1>6, <1>7 DEF Next

-----------------------------------------------------------------------------
(* What has been recorded *)

LEMMA RecordedKept ==
  ASSUME RecordedInv, UNCHANGED <<pc, i, m_obj, commands, last, bound, turn>>
  PROVE  RecordedInv'
BY DEF RecordedInv, Recorded, DrawOf

LEMMA RecordedNext == DrawInv /\ [Next]_vars => RecordedInv'
<1> SUFFICES ASSUME DrawInv, [Next]_vars PROVE RecordedInv'
  OBVIOUS
<1>t. TypeOK /\ SceneInv /\ ListInv /\ RecordedInv /\ turn \in Copies
      /\ commands \in [Copies -> Seq(DrawCommand)]
  BY DEF DrawInv, TypeOK
<1>1. CASE BeginFrame
  <2>1. /\ commands' = [commands EXCEPT ![turn] = <<>>] /\ turn' = turn
        /\ last' = [pipeline |-> Undefined, mesh |-> Undefined]
        /\ pc' \in {"objects", "aborted"}
    BY <1>1 DEF BeginFrame, AfterFirst, Frames!Begin
  <2>2. commands'[turn'] = <<>>
    BY <1>t, <2>1
  <2>3. Recorded(0)'
    BY <2>2 DEF Recorded
  <2>4. QED
    BY <2>1, <2>3 DEF RecordedInv
<1>2. CASE WriteObject
  <2>1. pc = "objects" /\ pc' = "objects" /\ UNCHANGED <<m_obj, commands, last, turn>>
    BY <1>2 DEF WriteObject, sceneVars, frameVars
  <2>2. Recorded(0)'
    BY <1>t, <2>1 DEF RecordedInv, Recorded
  <2>3. QED
    BY <1>t, <2>1, <2>2 DEF RecordedInv
<1>3. CASE WriteScene
  <2>1. /\ pc = "objects" /\ pc' = "record" /\ i' = 0
        /\ UNCHANGED <<m_obj, commands, last, turn>>
    BY <1>3 DEF WriteScene, sceneVars, frameVars
  <2>2. Recorded(0)'
    BY <1>t, <2>1 DEF RecordedInv, Recorded
  <2>3. Recorded(i)' /\ m_obj' \in Nat
    BY <1>t, <2>1, <2>2, CountsAreNumbers DEF TypeOK, Recorded
  <2>4. QED
    BY <1>t, <2>1, <2>3 DEF RecordedInv
<1>4. CASE RecordDraw
  <2>1. UNCHANGED <<m_obj, turn>>
    BY <1>4 DEF RecordDraw, sceneVars, frameVars
  <2>2. /\ i \in 0 .. m_obj /\ m_obj \in 0 .. MaxObjects
        /\ i' = i + 1 /\ pc' = IF i = m_obj THEN "submit" ELSE "record"
        /\ bound' = [set |-> turn, pipeline |-> DrawOf(i + 1).pipeline,
                      vertex |-> DrawOf(i + 1).vertex, index |-> DrawOf(i + 1).index]
        /\ last' = [pipeline |-> DrawOf(i + 1).pipeline, mesh |-> DrawOf(i + 1).vertex]
    BY <1>4, <1>t, DrawPut
  <2>3. /\ Len(commands'[turn]) = i + 1
        /\ \A k \in 1 .. i + 1 : commands'[turn][k] = DrawOf(k)
    BY <1>4, <1>t, MoreRecorded
  <2>4. \A k : DrawOf(k)' = DrawOf(k)
    BY <2>1 DEF DrawOf
  <2>5. ASSUME NEW n, n' = i + 1 PROVE Recorded(n)'
    BY <2>1, <2>3, <2>4, <2>5 DEF Recorded
  <2>6. CASE i = m_obj
    <3>1. Recorded(m_obj + 1)'
      BY <2>1, <2>5, <2>6
    <3>2. QED
      BY <2>2, <2>6, <3>1 DEF RecordedInv
  <2>7. CASE i # m_obj
    <3>1. Recorded(i)' /\ i' \in 0 .. m_obj' /\ pc' = "record"
      BY <2>1, <2>2, <2>5, <2>7, CountsAreNumbers
    <3>2. /\ last' = [pipeline |-> "defaultMaterial", mesh |-> i']
          /\ bound' = [set |-> turn', pipeline |-> "defaultMaterial", vertex |-> i', index |-> i']
          /\ i' > 0
      BY <2>1, <2>2, <2>7, CountsAreNumbers DEF DrawOf
    <3>3. QED
      BY <3>1, <3>2 DEF RecordedInv
  <2>8. QED
    BY <2>6, <2>7
<1>5. CASE UNCHANGED vars \/ Complete
  BY <1>5, <1>t, RecordedKept DEF vars, sceneVars, drawVars, frameVars, Complete, Frames!GiveBack
<1>6. CASE CreateObject \/ CreateLights \/ GiveRenderable \/ Animate \/ GiveUpFrame \/ Submit
  <2>1. pc' \notin {"objects", "record", "submit"}
    BY <1>6 DEF CreateObject, CreateLights, GiveRenderable, Animate, GiveUpFrame, Submit
  <2>2. QED
    BY <2>1 DEF RecordedInv
<1>7. QED
  BY <1>1, <1>2, <1>3, <1>4, <1>5, <1>6 DEF Next

-----------------------------------------------------------------------------
(* What has been written *)

LEMMA WrittenKept ==
  ASSUME WrittenInv, UNCHANGED <<pc, i, m_obj, entities, camera, buffers, turn>>
  PROVE  WrittenInv'
BY DEF WrittenInv, ObjectWritten, SceneWritten

LEMMA WrittenNext == DrawInv /\ [Next]_vars => WrittenInv'
<1> SUFFICES ASSUME DrawInv, [Next]_vars PROVE WrittenInv'
  OBVIOUS
<1>t. TypeOK /\ SceneInv /\ ListInv /\ WrittenInv /\ turn \in Copies
      /\ buffers \in [Copies -> Buffers] /\ buffers[turn] \in Buffers
      /\ m_obj \in 0 .. MaxObjects /\ MaxObjects \in Nat
  BY CountsAreNumbers DEF DrawInv, TypeOK
<1>b. /\ DOMAIN buffers[turn].transform = Positions /\ DOMAIN buffers[turn].material = Positions
      /\ DOMAIN buffers[turn].drawData = Positions
  BY <1>t DEF Buffers
<1>1. CASE BeginFrame
  <2>1. pc' \in {"objects", "aborted"} /\ i' = 0 /\ m_obj' = m_obj
    BY <1>1 DEF BeginFrame, AfterFirst, sceneVars
  <2>2. QED
    BY <1>t, <2>1 DEF WrittenInv
<1>2. CASE WriteObject
  <2>1. /\ pc = "objects" /\ pc' = "objects" /\ i' = i + 1 /\ UNCHANGED <<m_obj, entities, turn>>
    BY <1>2 DEF WriteObject, sceneVars, frameVars
  <2>2. i + 1 \in 1 .. m_obj /\ i \in Nat /\ i + 1 \in Positions /\ i \in Positions
    BY <1>2, <1>t, ObjectPut DEF Positions
  <2>3. \A k \in 1 .. i : ObjectWritten(k)
    BY <1>t, <2>1 DEF WrittenInv
  <2>4. /\ buffers'[turn].transform =
              [buffers[turn].transform EXCEPT ![i + 1] = entities[i + 1].rotation]
        /\ buffers'[turn].drawData =
              [buffers[turn].drawData EXCEPT ![i] = [transformIndex |-> i + 1,
                                                     materialIndex |-> i + 1]]
        /\ buffers'[turn].material =
              [buffers[turn].material EXCEPT ![i + 1] = entities[i + 1].material]
    BY <1>2, <1>t, ObjectPutOver
  <2>5. ASSUME NEW k \in 1 .. i + 1 PROVE ObjectWritten(k)'
    <3>1. k \in Positions /\ k - 1 \in Positions
      BY <1>t, <2>2 DEF Positions
    <3>2. CASE k = i + 1
      <4>1. k - 1 = i
        BY <2>2, <3>2
      <4>2. QED
        BY <1>b, <2>1, <2>2, <2>4, <3>2, <4>1 DEF ObjectWritten
    <3>3. CASE k # i + 1
      <4>1. k \in 1 .. i /\ k - 1 # i
        BY <2>2, <3>3
      <4>2. QED
        BY <1>b, <2>1, <2>3, <2>4, <3>1, <3>3, <4>1 DEF ObjectWritten
    <3>4. QED
      BY <3>2, <3>3
  <2>6. i' \in 0 .. m_obj'
    BY <1>t, <2>1, <2>2
  <2>7. QED
    BY <2>1, <2>5, <2>6 DEF WrittenInv
<1>3. CASE WriteScene
  <2>1. pc = "objects" /\ pc' = "record" /\ UNCHANGED <<m_obj, entities, turn, camera>>
    BY <1>3 DEF WriteScene, sceneVars, frameVars
  <2>2. i = m_obj /\ m_obj \in Positions /\ m_obj + 1 \in Positions
    BY <1>3, <1>t, ScenePut
  <2>3. \A k \in 1 .. m_obj : ObjectWritten(k)
    BY <1>t, <2>1, <2>2 DEF WrittenInv
  <2>4. /\ buffers'[turn].transform = buffers[turn].transform
        /\ buffers'[turn].drawData =
              [buffers[turn].drawData EXCEPT ![m_obj] = [transformIndex |-> m_obj + 1,
                                                         materialIndex |-> m_obj + 1]]
        /\ buffers'[turn].material = [buffers[turn].material EXCEPT ![m_obj + 1] = Sky]
        /\ buffers'[turn].camera = camera
        /\ buffers'[turn].dirLight = 0
        /\ buffers'[turn].pointLight = [l \in 1 .. MAX_POINT_LIGHTS |-> l]
    BY <1>3, <1>t, ScenePutOver
  <2>5. ASSUME NEW k \in 1 .. m_obj PROVE ObjectWritten(k)'
    <3>1. k # m_obj + 1 /\ k - 1 # m_obj /\ k \in Positions /\ k - 1 \in Positions
      BY <1>t DEF Positions
    <3>2. QED
      BY <1>b, <2>1, <2>3, <2>4, <3>1 DEF ObjectWritten
  <2>6. SceneWritten'
    BY <1>b, <2>1, <2>2, <2>4 DEF SceneWritten
  <2>7. QED
    BY <2>1, <2>5, <2>6 DEF WrittenInv
<1>4. CASE RecordDraw
  <2>1. /\ pc = "record" /\ pc' \in {"record", "submit"}
        /\ UNCHANGED <<m_obj, entities, turn, camera, buffers>>
    BY <1>4 DEF RecordDraw, sceneVars, frameVars
  <2>2. SceneWritten' /\ \A k \in 1 .. m_obj : ObjectWritten(k)'
    BY <1>t, <2>1 DEF WrittenInv, SceneWritten, ObjectWritten
  <2>3. QED
    BY <2>1, <2>2 DEF WrittenInv
<1>5. CASE UNCHANGED vars \/ Complete
  BY <1>5, <1>t, WrittenKept DEF vars, sceneVars, drawVars, frameVars, Complete, Frames!GiveBack
<1>6. CASE CreateObject \/ CreateLights \/ GiveRenderable \/ Animate \/ GiveUpFrame \/ Submit
  <2>1. pc' \notin {"objects", "record", "submit"}
    BY <1>6 DEF CreateObject, CreateLights, GiveRenderable, Animate, GiveUpFrame, Submit
  <2>2. QED
    BY <2>1 DEF WrittenInv
<1>7. QED
  BY <1>1, <1>2, <1>3, <1>4, <1>5, <1>6 DEF Next

-----------------------------------------------------------------------------
(* Types *)

LEMMA TypeInit == Init => TypeOK
<1> SUFFICES ASSUME Init PROVE TypeOK
  OBVIOUS
<1>1. \A c \in Copies : Len(commands[c]) = 0 /\ commands[c] \in Seq(DrawCommand)
  BY EmptySeq DEF Init
<1>2. lights \in [LightTypes -> Seq(1 .. Len(entities))]
  BY EmptySeq DEF Init
<1>3. buffers \in [Copies -> Buffers]
  BY CountsAreNumbers DEF Init, Buffers, Positions
<1>4. entities \in Seq(Object \cup Light) /\ renderables \in Seq(1 .. MaxObjects) /\ reading \in Seq(Copies)
  BY EmptySeq DEF Init, Frames!Init
<1>5. turn = 0 /\ filling = FALSE
  BY DEF Init, Frames!Init
<1>6. 0 \in Copies
  BY CountsAreNumbers DEF Copies
<1>7. COUNT = 0 /\ \A c \in Copies : Len(commands[c]) <= COUNT + 1
  BY <1>1, EmptySeq DEF Init, COUNT
<1>8. commands \in [Copies -> Seq(DrawCommand)]
  BY <1>1 DEF Init
<1>9. /\ last \in [pipeline : Pipelines \cup {Undefined}, mesh : Meshes \cup {Undefined}]
      /\ bound \in [set : Copies \cup {Undefined}, pipeline : Pipelines \cup {Undefined},
                vertex : Meshes \cup {Undefined}, index : Meshes \cup {Undefined}]
  BY DEF Init
<1>10. /\ pc \in {"load", "give", "poll", "draw", "objects", "record", "submit", "aborted"}
       /\ camera \in Views /\ skybox \in {Sky, Undefined}
  BY DEF Init
<1>11. i \in 0 .. MaxObjects + MAX_POINT_LIGHTS + 2 /\ m_obj \in 0 .. MaxObjects
  BY CountsAreNumbers DEF Init
<1>12. QED
  BY <1>2, <1>3, <1>4, <1>5, <1>6, <1>7, <1>8, <1>9, <1>10, <1>11 DEF TypeOK

\* What a step leaves alone keeps its type.
SceneTypes ==
  /\ entities \in Seq(Object \cup Light) /\ m_obj \in 0 .. MaxObjects
  /\ camera \in Views /\ skybox \in {Sky, Undefined}
ListTypes ==
  /\ renderables \in Seq(1 .. MaxObjects)
  /\ lights \in [LightTypes -> Seq(1 .. Len(entities))]
DrawTypes ==
  /\ buffers \in [Copies -> Buffers]
  /\ commands \in [Copies -> Seq(DrawCommand)]
  /\ \A c \in Copies : Len(commands[c]) <= COUNT + 1
  /\ last \in [pipeline : Pipelines \cup {Undefined}, mesh : Meshes \cup {Undefined}]
  /\ bound \in [set : Copies \cup {Undefined}, pipeline : Pipelines \cup {Undefined},
                vertex : Meshes \cup {Undefined}, index : Meshes \cup {Undefined}]
FrameTypes == turn \in Copies /\ filling \in BOOLEAN /\ reading \in Seq(Copies)
ControlTypes ==
  /\ pc \in {"load", "give", "poll", "draw", "objects", "record", "submit", "aborted"}
  /\ i \in 0 .. MaxObjects + MAX_POINT_LIGHTS + 2

LEMMA TypesSplit ==
  /\ TypeOK <=> ControlTypes /\ SceneTypes /\ ListTypes /\ DrawTypes /\ FrameTypes
  /\ TypeOK' <=> ControlTypes' /\ SceneTypes' /\ ListTypes' /\ DrawTypes' /\ FrameTypes'
BY DEF TypeOK, ControlTypes, SceneTypes, ListTypes, DrawTypes, FrameTypes

LEMMA TypesKept ==
  ASSUME TypeOK
  PROVE  /\ UNCHANGED sceneVars => SceneTypes'
         /\ UNCHANGED <<listVars, entities>> => ListTypes'
         /\ UNCHANGED <<drawVars, renderables>> => DrawTypes'
         /\ UNCHANGED frameVars => FrameTypes'
         /\ UNCHANGED <<pc, i>> => ControlTypes'
BY DEF TypeOK, ControlTypes, SceneTypes, ListTypes, DrawTypes, FrameTypes, sceneVars, listVars,
       drawVars, frameVars, COUNT

\* More entities to refer to.
LEMMA LightsKept ==
  ASSUME TypeOK, UNCHANGED <<renderables, lights>>, Len(entities') \in Nat,
         Len(entities') >= Len(entities)
  PROVE  ListTypes'
<1>1. Len(entities) \in Nat /\ 1 .. Len(entities) \subseteq 1 .. Len(entities')
  BY LenProperties DEF TypeOK
<1>2. ASSUME NEW type \in LightTypes PROVE lights[type] \in Seq(1 .. Len(entities'))
  <2>1. lights[type] \in Seq(1 .. Len(entities))
    BY DEF TypeOK
  <2>2. QED
    BY <1>1, <2>1, SeqMonotonic
<1>3. QED
  BY <1>2 DEF TypeOK, ListTypes

LEMMA TypeNext == DrawInv /\ [Next]_vars => TypeOK'
<1> SUFFICES ASSUME DrawInv, [Next]_vars PROVE TypeOK'
  OBVIOUS
<1>t. /\ TypeOK /\ SceneInv /\ ListInv /\ FramesInv /\ RecordedInv
      /\ MaxObjects \in Nat /\ MAX_POINT_LIGHTS \in Nat /\ m_obj \in 0 .. MaxObjects /\ i \in Nat
      /\ Len(entities) \in Nat
  BY CountsAreNumbers, LenProperties DEF DrawInv, TypeOK
<1>k. /\ UNCHANGED sceneVars => SceneTypes'
      /\ UNCHANGED <<listVars, entities>> => ListTypes'
      /\ UNCHANGED <<drawVars, renderables>> => DrawTypes'
      /\ UNCHANGED frameVars => FrameTypes'
      /\ UNCHANGED <<pc, i>> => ControlTypes'
      /\ ControlTypes /\ SceneTypes /\ DrawTypes /\ ListTypes
  BY <1>t, TypesKept, TypesSplit
<1>1. CASE CreateObject
  <2>1. /\ entities' \in Seq(Object \cup Light) /\ Len(entities') = Len(entities) + 1
        /\ m_obj' \in 1 .. MaxObjects
    BY <1>1, <1>t, ObjectCreated
  <2>2. SceneTypes'
    BY <1>1, <1>k, <1>t, <2>1 DEF CreateObject, SceneTypes
  <2>3. UNCHANGED <<pc, i, renderables, lights, drawVars, frameVars>>
    BY <1>1 DEF CreateObject, listVars
  <2>4. ListTypes'
    BY <1>t, <2>1, <2>3, LightsKept
  <2>5. QED
    BY <1>k, <2>2, <2>3, <2>4, TypesSplit
<1>2. CASE CreateLights
  <2>1. /\ entities' \in Seq(Object \cup Light)
        /\ Len(entities') = Len(entities) + 1 + MAX_POINT_LIGHTS
    BY <1>2, <1>t, LightsCreated
  <2>2. SceneTypes'
    BY <1>2, <1>k, <2>1 DEF CreateLights, SceneTypes
  <2>3. UNCHANGED <<renderables, lights, drawVars, frameVars>> /\ pc' = "give" /\ i' = 1
    BY <1>2 DEF CreateLights, listVars
  <2>4. ListTypes'
    BY <1>t, <2>1, <2>3, LightsKept
  <2>5. ControlTypes'
    BY <1>t, <2>3 DEF ControlTypes
  <2>6. QED
    BY <1>k, <2>2, <2>3, <2>4, <2>5, TypesSplit
<1>3. CASE GiveRenderable
  <2>1. /\ UNCHANGED <<entities, sceneVars, drawVars, frameVars>> /\ pc = "give"
        /\ i' = i + 1 /\ pc' \in {"poll", "give"} /\ i \in 1 .. Len(entities)
    BY <1>3, <1>t DEF GiveRenderable, sceneVars, ListInv
  <2>2. ControlTypes'
    BY <1>t, <2>1 DEF ControlTypes, SceneInv
  <2>3. CASE i <= m_obj
    <3>1. renderables' = Append(renderables, i) /\ i \in 1 .. MaxObjects /\ UNCHANGED lights
      BY <1>3, <1>t, <2>3, GiveAnObject
    <3>2. renderables \in Seq(1 .. MaxObjects) /\ Len(renderables) \in Nat
      BY <1>t, LenProperties DEF TypeOK
    <3>3. renderables' \in Seq(1 .. MaxObjects) /\ Len(renderables') = Len(renderables) + 1
      BY <3>1, <3>2, AppendProperties
    <3>4. ListTypes'
      BY <1>k, <2>1, <3>1, <3>3 DEF ListTypes
    <3>5. ASSUME NEW c \in Copies PROVE Len(commands[c]) <= Len(renderables') + 1
      <4>1. Len(commands[c]) \in Nat /\ Len(commands[c]) <= Len(renderables) + 1
        BY <1>t, LenProperties DEF TypeOK, COUNT
      <4>2. QED
        BY <3>2, <3>3, <4>1
    <3>6. DrawTypes'
      BY <1>k, <2>1, <3>5 DEF DrawTypes, drawVars, COUNT
    <3>7. QED
      BY <1>k, <2>1, <2>2, <3>4, <3>6, TypesSplit
  <2>4. CASE i > m_obj
    <3>1. /\ UNCHANGED renderables
          /\ entities[i].kind \in LightTypes /\ i \in 1 .. Len(entities)
          /\ lights' = [lights EXCEPT ![entities[i].kind] = Append(@, i)]
      BY <1>3, <1>t, <2>4, GiveALight
    <3>2. lights[entities[i].kind] \in Seq(1 .. Len(entities))
      BY <1>k, <3>1 DEF ListTypes
    <3>3. Append(lights[entities[i].kind], i) \in Seq(1 .. Len(entities))
      BY <3>1, <3>2, AppendProperties
    <3>4. ListTypes'
      BY <1>k, <2>1, <3>1, <3>3 DEF ListTypes
    <3>5. QED
      BY <1>k, <2>1, <2>2, <3>1, <3>4, TypesSplit
  <2>5. QED
    BY <1>t, <2>3, <2>4
<1>4. CASE Animate
  <2>1. entities' \in Seq(Object \cup Light) /\ Len(entities') = Len(entities)
    BY <1>4, <1>t, ObjectTurned
  <2>2. /\ UNCHANGED <<i, m_obj, skybox, renderables, lights, drawVars, frameVars>>
        /\ camera' \in Views /\ pc' = "draw"
    BY <1>4 DEF Animate, listVars
  <2>3. SceneTypes' /\ ControlTypes'
    BY <1>k, <2>1, <2>2 DEF SceneTypes, ControlTypes
  <2>4. ListTypes'
    BY <1>t, <2>1, <2>2, LightsKept
  <2>5. QED
    BY <1>k, <2>2, <2>3, <2>4, TypesSplit
<1>5. CASE UNCHANGED vars
  BY <1>5, <1>k, TypesSplit DEF vars, sceneVars, listVars
<1>6. CASE GiveUpFrame
  <2>1. UNCHANGED <<i, entities, renderables, sceneVars, listVars, drawVars, frameVars>> /\ pc' = "poll"
    BY <1>6 DEF GiveUpFrame, sceneVars, listVars
  <2>2. ControlTypes'
    BY <1>k, <2>1 DEF ControlTypes
  <2>3. QED
    BY <1>k, <2>1, <2>2, TypesSplit
<1>7. CASE BeginFrame
  <2>1. /\ UNCHANGED <<sceneVars, listVars, entities, renderables, buffers, turn, reading>>
        /\ commands' = [commands EXCEPT ![turn] = <<>>] /\ i' = 0
        /\ last' = [pipeline |-> Undefined, mesh |-> Undefined]
        /\ bound' = [set |-> Undefined, pipeline |-> Undefined, vertex |-> Undefined,
                     index |-> Undefined]
        /\ filling' = TRUE /\ pc' \in {"objects", "aborted"}
    BY <1>7 DEF BeginFrame, AfterFirst, Frames!Begin, sceneVars, listVars
  <2>2. FrameTypes' /\ ControlTypes'
    BY <1>t, <2>1 DEF TypeOK, FrameTypes, ControlTypes
  <2>3. /\ commands' \in [Copies -> Seq(DrawCommand)]
        /\ \A c \in Copies : commands'[c] = commands[c] \/ commands'[c] = <<>>
    BY <1>t, <2>1, EmptySeq DEF TypeOK
  <2>4. \A c \in Copies : Len(commands'[c]) <= COUNT + 1
    <3>1. COUNT \in Nat /\ Len(<<>>) = 0
      BY <1>t, LenProperties, EmptySeq DEF TypeOK, COUNT
    <3>2. QED
      BY <1>t, <2>3, <3>1 DEF TypeOK
  <2>5. DrawTypes'
    BY <1>k, <2>1, <2>3, <2>4 DEF DrawTypes, COUNT
  <2>6. QED
    BY <1>k, <2>1, <2>2, <2>5, TypesSplit
<1>8. CASE WriteObject
  <2>1. /\ UNCHANGED <<entities, renderables, sceneVars, listVars, commands, last, bound, frameVars>>
        /\ pc' = "objects" /\ i' = i + 1
    BY <1>8 DEF WriteObject, sceneVars, listVars
  <2>2. buffers' \in [Copies -> Buffers] /\ i + 1 \in 1 .. m_obj
    BY <1>8, <1>t, ObjectPut, ObjectPutOver
  <2>3. DrawTypes'
    BY <1>k, <2>1, <2>2 DEF DrawTypes, COUNT
  <2>4. ControlTypes'
    BY <1>t, <2>1, <2>2 DEF ControlTypes
  <2>5. QED
    BY <1>k, <2>1, <2>3, <2>4, TypesSplit
<1>9. CASE WriteScene
  <2>1. /\ UNCHANGED <<entities, renderables, sceneVars, listVars, commands, last, bound, frameVars>>
        /\ pc' = "record" /\ i' = 0
    BY <1>9 DEF WriteScene, sceneVars, listVars
  <2>2. buffers' \in [Copies -> Buffers]
    BY <1>9, <1>t, ScenePutOver
  <2>3. DrawTypes'
    BY <1>k, <2>1, <2>2 DEF DrawTypes, COUNT
  <2>4. ControlTypes'
    BY <1>t, <2>1 DEF ControlTypes
  <2>5. QED
    BY <1>k, <2>1, <2>3, <2>4, TypesSplit
<1>10. CASE RecordDraw
  <2>1. UNCHANGED <<entities, renderables, sceneVars, listVars, buffers, frameVars>> /\ pc = "record"
    BY <1>10 DEF RecordDraw, sceneVars, listVars
  <2>2. /\ i \in 0 .. m_obj /\ m_obj \in 0 .. MaxObjects
        /\ i' = i + 1 /\ pc' = IF i = m_obj THEN "submit" ELSE "record"
        /\ bound' = [set |-> turn, pipeline |-> DrawOf(i + 1).pipeline,
                      vertex |-> DrawOf(i + 1).vertex, index |-> DrawOf(i + 1).index]
        /\ last' = [pipeline |-> DrawOf(i + 1).pipeline, mesh |-> DrawOf(i + 1).vertex]
    BY <1>10, <1>t, DrawPut
  <2>3. /\ commands' \in [Copies -> Seq(DrawCommand)]
        /\ \A c \in Copies : c # turn => commands'[c] = commands[c]
        /\ Len(commands'[turn]) = i + 1
    BY <1>10, <1>t, MoreRecorded
  <2>4. DrawOf(i + 1).pipeline \in Pipelines /\ DrawOf(i + 1).vertex \in Meshes
        /\ DrawOf(i + 1).index \in Meshes /\ turn \in Copies
    BY <1>t, <2>2 DEF DrawOf, Pipelines, Meshes, TypeOK
  <2>5. COUNT = m_obj
    BY <1>t, <2>1, SceneGiven
  <2>6. ASSUME NEW c \in Copies PROVE Len(commands'[c]) <= COUNT + 1
    <3>1. CASE c = turn
      BY <2>2, <2>3, <2>5, <3>1
    <3>2. CASE c # turn
      BY <1>t, <2>3, <3>2 DEF TypeOK
    <3>3. QED
      BY <3>1, <3>2
  <2>7. DrawTypes'
    <3>1. last' \in [pipeline : Pipelines \cup {Undefined}, mesh : Meshes \cup {Undefined}]
      BY <2>2, <2>4
    <3>2. bound' \in [set : Copies \cup {Undefined}, pipeline : Pipelines \cup {Undefined},
                      vertex : Meshes \cup {Undefined}, index : Meshes \cup {Undefined}]
      BY <2>2, <2>4
    <3>3. QED
      BY <1>k, <2>1, <2>3, <2>6, <3>1, <3>2 DEF DrawTypes, COUNT
  <2>8. ControlTypes'
    BY <1>t, <2>2 DEF ControlTypes
  <2>9. QED
    BY <1>k, <2>1, <2>7, <2>8, TypesSplit
<1>11. CASE Submit
  <2>1. /\ UNCHANGED <<i, entities, renderables, sceneVars, listVars, drawVars>>
        /\ pc' = "poll" /\ Frames!HandOver /\ filling' = FALSE
    BY <1>11 DEF Submit, Frames!HandOver, sceneVars, listVars
  <2>2. ControlTypes'
    BY <1>k, <2>1 DEF ControlTypes
  <2>3. FrameTypes'
    BY <1>t, <2>1, HandedOver DEF FrameTypes
  <2>4. QED
    BY <1>k, <2>1, <2>2, <2>3, TypesSplit
<1>12. CASE Complete
  <2>1. /\ UNCHANGED <<pc, i, entities, renderables, sceneVars, listVars, drawVars, turn, filling>>
        /\ Frames!GiveBack
    BY <1>12 DEF Complete, Frames!GiveBack, sceneVars, listVars
  <2>2. FrameTypes'
    BY <1>t, <2>1, GivenBack DEF FrameTypes, TypeOK
  <2>3. QED
    BY <1>k, <2>1, <2>2, TypesSplit
<1>13. QED
  BY <1>1, <1>2, <1>3, <1>4, <1>5, <1>6, <1>7, <1>8, <1>9, <1>10, <1>11, <1>12 DEF Next

-----------------------------------------------------------------------------
(* What there is to see *)

\* Entities that stand in a row are counted as they stand.
LEMMA InARow ==
  ASSUME NEW kind, NEW a \in Nat, NEW n \in Nat, PlacesOf(kind) = a + 1 .. a + n
  PROVE  /\ Cardinality(PlacesOf(kind)) = n
         /\ \A k \in 1 .. n : NthOf(kind, k) = a + k
<1> DEFINE S == a + 1 .. a + n
<1>1. Cardinality(S) = n
  BY FS_Interval
<1>2. ASSUME NEW p \in S PROVE Cardinality(S \cap 1 .. p) = p - a
  <2>1. S \cap 1 .. p = a + 1 .. p
    OBVIOUS
  <2>2. a + 1 \in Int /\ p \in Int /\ a + 1 <= p
    OBVIOUS
  <2>3. Cardinality(a + 1 .. p) = p - (a + 1) + 1 /\ p - (a + 1) + 1 = p - a
    BY <2>2, FS_Interval
  <2> HIDE DEF S
  <2>4. QED
    BY <2>1, <2>3
<1>3. ASSUME NEW k \in 1 .. n PROVE NthOf(kind, k) = a + k
  <2>1. a + k \in S /\ a + k - a = k
    OBVIOUS
  <2>2. \A p \in S : p - a = k <=> p = a + k
    OBVIOUS
  <2>3. \A p \in S : Cardinality(S \cap 1 .. p) = k <=> p = a + k
    BY <1>2, <2>2
  <2>4. NthOf(kind, k) = CHOOSE p \in S : Cardinality(S \cap 1 .. p) = k
    BY DEF NthOf
  <2> HIDE DEF S
  <2>5. QED
    BY <2>1, <2>3, <2>4
<1>4. QED
  BY <1>1, <1>3

\* What place k of a frame shows: object k, or the sky behind all of them.
InView(k) ==
  IF k <= m_obj
  THEN [mesh |-> OwnMesh(k), material |-> entities[k].material, camera |-> camera,
        rotation |-> entities[k].rotation, sun |-> <<0>>,
        points |-> [l \in 1 .. MAX_POINT_LIGHTS |-> l]]
  ELSE [mesh |-> OwnMesh(0), material |-> Sky, camera |-> camera]

LEMMA WhereEntitiesAre ==
  ASSUME TypeOK, SceneInv, pc # "load"
  PROVE  /\ PlacesOf("OBJECT") = 0 + 1 .. 0 + m_obj
         /\ PlacesOf("DIRECTIONAL") = m_obj + 1 .. m_obj + 1
         /\ PlacesOf("POINT") = m_obj + 1 + 1 .. m_obj + 1 + MAX_POINT_LIGHTS
<1>1. /\ m_obj \in Nat /\ MAX_POINT_LIGHTS \in Nat /\ Len(entities) = m_obj + 1 + MAX_POINT_LIGHTS
  BY CountsAreNumbers DEF TypeOK, SceneInv
<1>2. \A p \in 1 .. m_obj : entities[p].kind = "OBJECT"
  BY DEF SceneInv, Object
<1>3. entities[m_obj + 1].kind = "DIRECTIONAL"
  BY DEF SceneInv, Sun
<1>4. ASSUME NEW p \in m_obj + 2 .. m_obj + 1 + MAX_POINT_LIGHTS PROVE entities[p].kind = "POINT"
  <2>1. p - (m_obj + 1) \in 1 .. MAX_POINT_LIGHTS /\ m_obj + 1 + (p - (m_obj + 1)) = p
    BY <1>1
  <2>2. entities[p] = Point(p - (m_obj + 1))
    BY <2>1 DEF SceneInv
  <2>3. QED
    BY <2>2 DEF Point
<1>5. \A p \in 1 .. Len(entities) : \/ p \in 1 .. m_obj \/ p = m_obj + 1
                                    \/ p \in m_obj + 2 .. m_obj + 1 + MAX_POINT_LIGHTS
  BY <1>1
<1>6. PlacesOf("OBJECT") = 1 .. m_obj
  BY <1>1, <1>2, <1>3, <1>4, <1>5 DEF PlacesOf
<1>7. PlacesOf("DIRECTIONAL") = {m_obj + 1}
  BY <1>1, <1>2, <1>3, <1>4, <1>5 DEF PlacesOf
<1>8. PlacesOf("POINT") = m_obj + 2 .. m_obj + 1 + MAX_POINT_LIGHTS
  BY <1>1, <1>2, <1>3, <1>4, <1>5 DEF PlacesOf
<1>9. QED
  BY <1>1, <1>6, <1>7, <1>8

\* There is a place for every object in its order, and the sky behind them.
LEMMA VisibleInOrder ==
  ASSUME TypeOK, SceneInv, pc # "load"
  PROVE  /\ Visible \in Seq({InView(k) : k \in 1 .. m_obj + 1})
         /\ Len(Visible) = m_obj + 1
         /\ \A k \in 1 .. m_obj + 1 : Visible[k] = InView(k)
<1>1. m_obj \in Nat /\ MAX_POINT_LIGHTS \in Nat /\ skybox = Sky
  BY CountsAreNumbers DEF TypeOK, SceneInv
<1>2. /\ Cardinality(PlacesOf("OBJECT")) = m_obj
      /\ \A k \in 1 .. m_obj : NthOf("OBJECT", k) = 0 + k
  BY <1>1, WhereEntitiesAre, InARow
<1>3. EntitiesOf("OBJECT") = [k \in 1 .. m_obj |-> entities[k]]
  BY <1>1, <1>2 DEF EntitiesOf
<1>4. /\ Cardinality(PlacesOf("DIRECTIONAL")) = 1
      /\ \A k \in 1 .. 1 : NthOf("DIRECTIONAL", k) = m_obj + k
  <2>1. PlacesOf("DIRECTIONAL") = m_obj + 1 .. m_obj + 1
    BY WhereEntitiesAre
  <2>2. QED
    BY <1>1, <2>1, InARow
<1>5. LightsOf("DIRECTIONAL") = <<0>>
  <2>1. EntitiesOf("DIRECTIONAL") = [k \in 1 .. 1 |-> entities[m_obj + k]]
    BY <1>1, <1>4 DEF EntitiesOf
  <2>2. \A k \in 1 .. 1 : k = 1
    OBVIOUS
  <2>3. entities[m_obj + 1].light = 0
    BY DEF SceneInv, Sun
  <2>4. LightsOf("DIRECTIONAL") = [k \in 1 .. 1 |-> 0]
    BY <2>1, <2>2, <2>3 DEF LightsOf
  <2>5. [k \in 1 .. 1 |-> 0] = <<0>>
    OBVIOUS
  <2>6. QED
    BY <2>4, <2>5
<1>6. LightsOf("POINT") = [l \in 1 .. MAX_POINT_LIGHTS |-> l]
  <2>1. PlacesOf("POINT") = (m_obj + 1) + 1 .. (m_obj + 1) + MAX_POINT_LIGHTS /\ m_obj + 1 \in Nat
    BY <1>1, WhereEntitiesAre
  <2>2. /\ Cardinality(PlacesOf("POINT")) = MAX_POINT_LIGHTS
        /\ \A k \in 1 .. MAX_POINT_LIGHTS : NthOf("POINT", k) = (m_obj + 1) + k
    BY <1>1, <2>1, InARow
  <2>3. EntitiesOf("POINT") = [k \in 1 .. MAX_POINT_LIGHTS |-> entities[m_obj + 1 + k]]
    BY <1>1, <2>2 DEF EntitiesOf
  <2>4. ASSUME NEW l \in 1 .. MAX_POINT_LIGHTS PROVE entities[m_obj + 1 + l].light = l
    <3>1. entities[m_obj + 1 + l] = Point(l)
      BY DEF SceneInv
    <3>2. QED
      BY <3>1 DEF Point
  <2>5. QED
    BY <2>3, <2>4 DEF LightsOf
<1>7. ASSUME NEW k \in 1 .. m_obj PROVE Seen(EntitiesOf("OBJECT")[k]) = InView(k)
  <2>1. EntitiesOf("OBJECT")[k] = entities[k] /\ entities[k].mesh = k
    BY <1>3 DEF SceneInv
  <2>2. QED
    BY <1>1, <1>5, <1>6, <2>1 DEF Seen, InView
<1> DEFINE T == {InView(k) : k \in 1 .. m_obj + 1}
           objects == [k \in 1 .. m_obj |-> InView(k)]
           sky == [mesh |-> OwnMesh(0), material |-> Sky, camera |-> camera]
<1>8. Visible = Append(objects, sky)
  BY <1>1, <1>3, <1>7 DEF Visible
<1>9. sky = InView(m_obj + 1) /\ m_obj + 1 \in 1 .. m_obj + 1
  BY <1>1 DEF InView
<1>10. objects \in Seq(T) /\ sky \in T /\ Len(objects) = m_obj
       /\ \A k \in 1 .. m_obj : objects[k] = InView(k)
  BY <1>1, <1>9
<1>11. \A k \in 1 .. m_obj + 1 : k \in 1 .. m_obj \/ k = m_obj + 1
  BY <1>1
<1> HIDE DEF objects, sky, T
<1>12. /\ Visible \in Seq(T) /\ Len(Visible) = m_obj + 1
       /\ \A k \in 1 .. m_obj : Visible[k] = objects[k]
       /\ Visible[m_obj + 1] = sky
  BY <1>8, <1>10, AppendProperties
<1>13. \A k \in 1 .. m_obj + 1 : Visible[k] = InView(k)
  BY <1>9, <1>10, <1>11, <1>12
<1>14. QED
  BY <1>12, <1>13 DEF T

\* When a frame is submitted its shaders find just that.
LEMMA ShownIsVisible ==
  ASSUME DrawInv, pc = "submit"
  PROVE  Shown(turn) = Visible
<1>1. /\ TypeOK /\ SceneInv /\ m_obj \in Nat /\ turn \in Copies
  BY DEF DrawInv, TypeOK
<1>2. Len(commands[turn]) = m_obj + 1 /\ \A k \in 1 .. m_obj + 1 : commands[turn][k] = DrawOf(k)
  BY DEF DrawInv, RecordedInv, Recorded
<1>3. SceneWritten /\ \A k \in 1 .. m_obj : ObjectWritten(k)
  BY DEF DrawInv, WrittenInv
<1>4. ASSUME NEW k \in 1 .. m_obj + 1 PROVE Shaded(DrawOf(k)) = InView(k)
  <2>1. CASE k <= m_obj
    <3>1. k \in 1 .. m_obj
      BY <1>1, <2>1
    <3>2. ObjectWritten(k) /\ SceneWritten
      BY <1>3, <3>1
    <3>3. DrawOf(k) = [set |-> turn, pipeline |-> "defaultMaterial", vertex |-> k, index |-> k,
                       drawDataIndex |-> k - 1]
      BY <2>1 DEF DrawOf
    <3>4. Shaded(DrawOf(k)) = ShadedObject(DrawOf(k))
      BY <3>3 DEF Shaded
    <3>5. ShadedObject(DrawOf(k)) =
            [mesh |-> OwnMesh(k), rotation |-> entities[k].rotation,
             material |-> entities[k].material, camera |-> camera, sun |-> <<0>>,
             points |-> [l \in 1 .. MAX_POINT_LIGHTS |-> l]]
      <4> DEFINE draw == DrawOf(k)
                 data == buffers[turn]
      <4>1. /\ draw.set = turn /\ draw.vertex = k /\ draw.index = k
            /\ draw.drawDataIndex = k - 1 /\ k # 0
        BY <1>1, <3>1, <3>3
      <4>2. data.drawData[k - 1].transformIndex = k /\ data.drawData[k - 1].materialIndex = k
        BY <3>2 DEF ObjectWritten
      <4>3. /\ data.transform[k] = entities[k].rotation /\ data.material[k] = entities[k].material
            /\ data.camera = camera /\ data.dirLight = 0
            /\ data.pointLight = [l \in 1 .. MAX_POINT_LIGHTS |-> l]
        BY <3>2 DEF ObjectWritten, SceneWritten
      <4> HIDE DEF draw, data
      <4>4. ShadedObject(draw) =
              [mesh |-> MeshOf(draw),
               rotation |-> IF data.drawData[k - 1].transformIndex = 0 THEN Undefined
                            ELSE data.transform[data.drawData[k - 1].transformIndex],
               material |-> data.material[data.drawData[k - 1].materialIndex],
               camera |-> data.camera, sun |-> <<data.dirLight>>, points |-> data.pointLight]
        BY <4>1 DEF ShadedObject, BuffersOf, data
      <4>5. MeshOf(draw) = OwnMesh(k)
        BY <4>1 DEF MeshOf, OwnMesh
      <4>6. ShadedObject(draw) =
              [mesh |-> OwnMesh(k), rotation |-> data.transform[k],
               material |-> data.material[k],
               camera |-> data.camera, sun |-> <<data.dirLight>>, points |-> data.pointLight]
        BY <4>1, <4>2, <4>4, <4>5
      <4>7. QED
        BY <4>3, <4>6 DEF draw
    <3>6. QED
      BY <2>1, <3>4, <3>5 DEF InView
  <2>2. CASE k > m_obj
    <3>1. DrawOf(k) = [set |-> turn, pipeline |-> "skyboxMaterial", vertex |-> 0, index |-> 0,
                       drawDataIndex |-> m_obj] /\ ~(k <= m_obj)
      BY <1>1, <2>2 DEF DrawOf
    <3>2. QED
      BY <1>3, <3>1 DEF Shaded, ShadedSky, BuffersOf, MeshOf, OwnMesh, SceneWritten, InView
  <2>3. QED
    BY <1>1, <2>1, <2>2
<1> DEFINE T == {InView(k) : k \in 1 .. m_obj + 1}
<1>5. Shown(turn) = [k \in 1 .. m_obj + 1 |-> InView(k)]
  BY <1>2, <1>4 DEF Shown
<1>6. Shown(turn) \in Seq(T) /\ Len(Shown(turn)) = m_obj + 1
      /\ \A k \in 1 .. m_obj + 1 : Shown(turn)[k] = InView(k)
  BY <1>1, <1>5
<1>7. Visible \in Seq(T) /\ Len(Visible) = m_obj + 1
      /\ \A k \in 1 .. m_obj + 1 : Visible[k] = InView(k)
  BY <1>1, VisibleInOrder
<1> HIDE DEF T
<1>8. QED
  BY <1>6, <1>7, SeqEqual

-----------------------------------------------------------------------------
(* The invariant holds, and DrawList implements Pictures *)

LEMMA DrawInvariant == Spec => []DrawInv
<1>1. Init => DrawInv
  <2> SUFFICES ASSUME Init PROVE DrawInv
    OBVIOUS
  <2>1. WrittenInv /\ RecordedInv
    BY DEF Init, WrittenInv, RecordedInv
  <2>2. QED
    BY <2>1, TypeInit, SceneInit, ListInit, FramesInit, SetInit DEF DrawInv
<1>2. DrawInv /\ [Next]_vars => DrawInv'
  <2> SUFFICES ASSUME DrawInv, [Next]_vars PROVE DrawInv'
    OBVIOUS
  <2>1. TypeOK /\ SceneInv /\ ListInv /\ FramesInv
    BY DEF DrawInv
  <2>2. SceneInv' /\ ListInv' /\ FramesInv'
    BY <2>1, SceneNext, ListNext, FramesNext
  <2>3. TypeOK' /\ SetInv' /\ WrittenInv' /\ RecordedInv'
    BY TypeNext, SetNext, WrittenNext, RecordedNext
  <2>4. QED
    BY <2>2, <2>3 DEF DrawInv
<1>3. QED
  BY <1>1, <1>2, PTL DEF Spec

\* The scene, the lists, the buffers and the commands keep their types, whatever the
\* number of objects, of lights and of frames in flight; no frame has more draws than
\* there are renderables and the skybox.
THEOREM DrawListTypes == Spec => []TypeOK
<1>1. DrawInv => TypeOK
  BY DEF DrawInv
<1>2. QED
  BY <1>1, DrawInvariant, PTL

Underway == [k \in 1 .. Len(reading) |-> Shown(reading[k])]

\* What a copy shows is in its own commands and buffers.
LEMMA ShownKept ==
  ASSUME SetInv, NEW c \in Copies, commands'[c] = commands[c], buffers'[c] = buffers[c]
  PROVE  Shown(c)' = Shown(c)
<1>1. ASSUME NEW k \in 1 .. Len(commands[c]) PROVE Shaded(commands[c][k])' = Shaded(commands[c][k])
  <2> DEFINE draw == commands[c][k]
  <2>1. draw' = draw /\ draw.set = c
    BY DEF SetInv
  <2> HIDE DEF draw
  <2>2. ShadedObject(draw)' = ShadedObject(draw)
    BY <2>1 DEF ShadedObject, BuffersOf, MeshOf
  <2>3. ShadedSky(draw)' = ShadedSky(draw)
    BY <2>1 DEF ShadedSky, BuffersOf, MeshOf
  <2>4. Shaded(draw)' = Shaded(draw)
    BY <2>1, <2>2, <2>3 DEF Shaded
  <2>5. QED
    BY <2>4 DEF draw
<1>2. QED
  BY <1>1 DEF Shown

\* The frames that are read show what they showed, as long as they are not touched.
LEMMA UnderwayKept ==
  ASSUME DrawInv, reading' = reading,
         \A c \in Copies : Frames!IsRead(c) => commands'[c] = commands[c] /\ buffers'[c] = buffers[c]
  PROVE  Underway' = Underway
<1>1. SetInv /\ reading \in Seq(Copies)
  BY DEF DrawInv, TypeOK
<1>2. ASSUME NEW c \in Copies, Frames!IsRead(c) PROVE Shown(c)' = Shown(c)
  BY <1>1, <1>2, ShownKept
<1>3. ASSUME NEW k \in 1 .. Len(reading) PROVE Shown(reading[k])' = Shown(reading[k])
  <2>1. PICK c \in Copies : c = reading[k]
    BY <1>1, ElementOfSeq
  <2>2. Frames!IsRead(c)
    BY <2>1 DEF Frames!IsRead
  <2>3. Shown(c)' = Shown(c)
    BY <1>2, <2>2
  <2>4. QED
    BY <2>1, <2>3
<1>4. QED
  BY <1>3 DEF Underway

\* No step of drawObjects touches a frame that is read.
LEMMA DrawsKeepUnderway ==
  ASSUME DrawInv, BeginFrame \/ WriteObject \/ WriteScene \/ RecordDraw
  PROVE  Underway' = Underway
<1>1. /\ TypeOK /\ SceneInv /\ ListInv /\ FramesInv /\ RecordedInv
      /\ turn \in Copies /\ commands \in [Copies -> Seq(DrawCommand)]
  BY DEF DrawInv, TypeOK
<1>2. reading' = reading /\ ~Frames!IsRead(turn)
  <2>1. CASE BeginFrame
    BY <2>1 DEF BeginFrame, Frames!Begin
  <2>2. CASE WriteObject \/ WriteScene \/ RecordDraw
    BY <1>1, <2>2, DrawsKeep DEF FramesInv, frameVars
  <2>3. QED
    BY <2>1, <2>2
<1>3. ASSUME NEW c \in Copies, c # turn
      PROVE  commands'[c] = commands[c] /\ buffers'[c] = buffers[c]
  <2>1. CASE BeginFrame
    BY <1>1, <1>3, <2>1 DEF BeginFrame
  <2>2. CASE WriteObject
    <3>1. commands' = commands
      BY <2>2 DEF WriteObject
    <3>2. QED
      BY <1>1, <1>3, <2>2, <3>1, ObjectPutOver
  <2>3. CASE WriteScene
    <3>1. commands' = commands
      BY <2>3 DEF WriteScene
    <3>2. QED
      BY <1>1, <1>3, <2>3, <3>1, ScenePutOver
  <2>4. CASE RecordDraw
    <3>1. buffers' = buffers
      BY <2>4 DEF RecordDraw
    <3>2. QED
      BY <1>1, <1>3, <2>4, <3>1, MoreRecorded
  <2>5. QED
    BY <2>1, <2>2, <2>3, <2>4
<1>4. QED
  BY <1>2, <1>3, UnderwayKept

\* Nothing of the scene changes what there is to see, if nothing of it changes.
LEMMA VisibleKept ==
  ASSUME UNCHANGED sceneVars
  PROVE  Visible' = Visible
<1>1. entities' = entities /\ camera' = camera /\ skybox' = skybox
  BY DEF sceneVars
<1>2. ASSUME NEW kind PROVE EntitiesOf(kind)' = EntitiesOf(kind)
  <2>1. PlacesOf(kind)' = PlacesOf(kind)
    BY <1>1 DEF PlacesOf
  <2>2. \A n : NthOf(kind, n)' = NthOf(kind, n)
    BY <2>1 DEF NthOf
  <2>3. QED
    BY <1>1, <2>1, <2>2 DEF EntitiesOf
<1>3. ASSUME NEW kind PROVE LightsOf(kind)' = LightsOf(kind)
  BY <1>2 DEF LightsOf
<1>4. ASSUME NEW object PROVE Seen(object)' = Seen(object)
  BY <1>1, <1>3 DEF Seen
<1>5. QED
  BY <1>1, <1>2, <1>4 DEF Visible

LEMMA UnderwayLists ==
  ASSUME reading \in Seq(Copies)
  PROVE  /\ Underway \in Seq({Shown(c) : c \in Copies}) /\ Len(Underway) = Len(reading)
         /\ \A k \in 1 .. Len(reading) : Underway[k] = Shown(reading[k])
<1>1. Len(reading) \in Nat /\ \A k \in 1 .. Len(reading) : reading[k] \in Copies
  BY LenProperties, ElementOfSeq
<1>2. QED
  BY <1>1 DEF Underway

LEMMA UnderwayListsNext ==
  ASSUME reading' \in Seq(Copies), \A c \in Copies : Shown(c)' = Shown(c)
  PROVE  /\ Underway' \in Seq({Shown(c) : c \in Copies}) /\ Len(Underway') = Len(reading')
         /\ \A k \in 1 .. Len(reading') :
              \E c \in Copies : reading'[k] = c /\ Underway'[k] = Shown(c)
<1>1. Len(reading') \in Nat /\ \A k \in 1 .. Len(reading') : reading'[k] \in Copies
  BY LenProperties, ElementOfSeq
<1>2. Underway' = [k \in 1 .. Len(reading') |-> Shown(reading'[k])]
  <2>1. ASSUME NEW k \in 1 .. Len(reading') PROVE Shown(reading[k])' = Shown(reading'[k])
    <3>1. PICK c \in Copies : c = reading'[k]
      BY <1>1
    <3>2. QED
      BY <3>1
  <2>2. QED
    BY <2>1 DEF Underway
<1>3. QED
  BY <1>1, <1>2

LEMMA PicturesStep ==
  DrawInv /\ DrawInv' /\ [Next]_vars => [Picture!Next]_(Picture!vars)
<1> SUFFICES ASSUME DrawInv, DrawInv', [Next]_vars
             PROVE  Picture!Change \/ Picture!Draw \/ Picture!Finish
  BY DEF Picture!Next
<1>t. TypeOK /\ FramesInv /\ reading \in Seq(Copies) /\ turn \in Copies /\ SetInv
  BY DEF DrawInv, TypeOK
<1>w. /\ Underway \in Seq({Shown(c) : c \in Copies}) /\ Len(Underway) = Len(reading)
      /\ \A k \in 1 .. Len(reading) : Underway[k] = Shown(reading[k])
  BY <1>t, UnderwayLists
<1>x. ASSUME \A c \in Copies : Shown(c)' = Shown(c)
      PROVE  /\ Underway' \in Seq({Shown(c) : c \in Copies}) /\ Len(Underway') = Len(reading')
             /\ \A k \in 1 .. Len(reading') :
                  \E c \in Copies : reading'[k] = c /\ Underway'[k] = Shown(c)
  <2>1. reading' \in Seq(Copies)
    BY DEF DrawInv, TypeOK, Copies
  <2>2. QED
    BY <1>x, <2>1, UnderwayListsNext
<1>u. Underway' = Underway => Picture!Change
  BY DEF Picture!Change, Underway
<1>1. CASE Submit
  <2>1. pc = "submit" /\ Frames!HandOver /\ UNCHANGED <<commands, buffers, sceneVars>> /\ filling
    BY <1>1 DEF Submit, Frames!HandOver, drawVars
  <2>2. Len(reading) < FRAME_OVERLAP /\ Len(reading) \in Nat
    BY <1>t, <2>1, RoomForOne, ReadingLength
  <2>3. /\ Len(reading') = Len(reading) + 1
        /\ \A k \in 1 .. Len(reading) : reading'[k] = reading[k]
        /\ reading'[Len(reading) + 1] = turn
    BY <1>t, <2>1, HandedOver
  <2>4. \A c \in Copies : Shown(c)' = Shown(c)
    BY <1>t, <2>1, ShownKept
  <2>5. Shown(turn) = Visible /\ Visible' = Visible
    BY <2>1, ShownIsVisible, VisibleKept
  <2>6. Underway' = Append(Underway, Visible)
    <3> DEFINE T == {Shown(c) : c \in Copies}
    <3>1. Visible \in T
      BY <1>t, <2>5
    <3>2. Underway \in Seq(T) /\ Len(Underway) = Len(reading)
          /\ \A k \in 1 .. Len(reading) : Underway[k] = Shown(reading[k])
      BY <1>w
    <3>3. /\ Underway' \in Seq(T) /\ Len(Underway') = Len(reading')
          /\ \A k \in 1 .. Len(reading') : \E c \in Copies : reading'[k] = c /\ Underway'[k] = Shown(c)
      BY <1>x, <2>4
    <3> HIDE DEF T
    <3>4. /\ Append(Underway, Visible) \in Seq(T)
          /\ Len(Append(Underway, Visible)) = Len(reading) + 1
          /\ \A k \in 1 .. Len(reading) : Append(Underway, Visible)[k] = Underway[k]
          /\ Append(Underway, Visible)[Len(reading) + 1] = Visible
      BY <3>1, <3>2, AppendProperties
    <3>5. ASSUME NEW k \in 1 .. Len(reading') PROVE Underway'[k] = Append(Underway, Visible)[k]
      <4>1. CASE k = Len(reading) + 1
        BY <2>3, <2>5, <3>3, <3>4, <4>1
      <4>2. CASE k # Len(reading) + 1
        <5>1. k \in 1 .. Len(reading)
          BY <2>2, <2>3, <4>2
        <5>2. QED
          BY <2>3, <3>2, <3>3, <3>4, <5>1
      <4>3. QED
        BY <4>1, <4>2
    <3>6. QED
      BY <2>3, <3>3, <3>4, <3>5, SeqEqual
  <2>7. Picture!Draw
    BY <2>2, <2>5, <2>6 DEF Picture!Draw, Underway
  <2>8. QED
    BY <2>7
<1>2. CASE Complete
  <2>1. Frames!GiveBack /\ UNCHANGED <<commands, buffers, sceneVars>>
    BY <1>2 DEF Complete, drawVars
  <2>2. /\ Len(reading) \in Nat \ {0} /\ Len(reading') = Len(reading) - 1
        /\ \A k \in 1 .. Len(reading') : reading'[k] = reading[k + 1]
    BY <1>t, <2>1, GivenBack
  <2>3. \A c \in Copies : Shown(c)' = Shown(c)
    BY <1>t, <2>1, ShownKept
  <2>4. Visible' = Visible
    BY <2>1, VisibleKept
  <2>5. Underway # <<>> /\ Underway' = Tail(Underway)
    <3> DEFINE T == {Shown(c) : c \in Copies}
    <3>1. Underway \in Seq(T) /\ Len(Underway) = Len(reading)
          /\ \A k \in 1 .. Len(reading) : Underway[k] = Shown(reading[k])
      BY <1>w
    <3>2. /\ Underway' \in Seq(T) /\ Len(Underway') = Len(reading')
          /\ \A k \in 1 .. Len(reading') : \E c \in Copies : reading'[k] = c /\ Underway'[k] = Shown(c)
      BY <1>x, <2>3
    <3> HIDE DEF T
    <3>3. Underway # <<>>
      BY <2>2, <3>1, EmptySeq
    <3>4. /\ Tail(Underway) \in Seq(T) /\ Len(Tail(Underway)) = Len(reading')
          /\ \A k \in 1 .. Len(reading') : Tail(Underway)[k] = Underway[k + 1]
      BY <2>2, <3>1, <3>3, HeadTailProperties
    <3>5. ASSUME NEW k \in 1 .. Len(reading') PROVE Underway'[k] = Tail(Underway)[k]
      <4>1. k + 1 \in 1 .. Len(reading)
        BY <2>2
      <4>2. QED
        BY <2>2, <3>1, <3>2, <3>4, <4>1
    <3>6. QED
      BY <3>2, <3>3, <3>4, <3>5, SeqEqual
  <2>6. Picture!Finish
    BY <2>4, <2>5 DEF Picture!Finish, Underway
  <2>7. QED
    BY <2>6
<1>3. CASE UNCHANGED vars
  <2>1. UNCHANGED <<reading, commands, buffers>>
    BY <1>3 DEF vars, drawVars, frameVars
  <2>2. QED
    BY <1>u, <2>1, UnderwayKept
<1>4. CASE CreateObject \/ CreateLights \/ GiveRenderable \/ Animate \/ GiveUpFrame
  <2>1. UNCHANGED <<reading, commands, buffers>>
    BY <1>4 DEF CreateObject, CreateLights, GiveRenderable, Animate, GiveUpFrame, drawVars, frameVars
  <2>2. QED
    BY <1>u, <2>1, UnderwayKept
<1>5. CASE BeginFrame \/ WriteObject \/ WriteScene \/ RecordDraw
  BY <1>5, <1>u, DrawsKeepUnderway
<1>6. QED
  BY <1>1, <1>2, <1>3, <1>4, <1>5 DEF Next

\* Every frame under way shows, whenever the GPU comes to it, the scene as it was when
\* the frame was drawn: for any number of frames in flight, of objects, of lights and of
\* turns of the object, and whatever the scene becomes meanwhile.
THEOREM PicturesShown == Spec => ImplementsPictures
<1>1. Init => Picture!Init
  <2> SUFFICES ASSUME Init PROVE Underway = <<>>
    BY DEF Picture!Init, Underway
  <2>1. reading = <<>> /\ Len(reading) = 0
    BY EmptySeq DEF Init, Frames!Init
  <2>2. QED
    BY <2>1 DEF Underway
<1>2. QED
  BY <1>1, PicturesStep, DrawInvariant, PTL DEF Spec, ImplementsPictures, Picture!Spec

=============================================================================
