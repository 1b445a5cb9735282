----------------------------- MODULE MCSceneLoad -----------------------------
(***************************************************************************)
(* Small glTF files for SceneLoad: up to two images and two textures, whose *)
(* sources are in any order, the same or missing, and two materials for up *)
(* to two primitives.                                                      *)
(***************************************************************************)
EXTENDS SceneLoad

CONSTANTS d1, d2, sky

MCData == {d1, d2, sky}
MCCubeParts == <<sky, d1>>

\* Everything the files share: two primitives with vertices of their own.
MCPrimitives == {<<>>, <<[parts |-> <<d1, d2>>, material |-> 2]>>,
  <<[parts |-> <<d2, d1>>, material |-> 2], [parts |-> <<d1>>, material |-> 1]>>}

\* Two of the four textures of a material, each of the n or none, and from them the
\* other two; the second material has them the other way round.
MCMaterials(n) ==
  {<<[k \in Kinds |-> CASE k = "textureHandle" -> a [] k = "normalHandle" -> b
                        [] k = "roughnessHandle" -> (a + 1) % (n + 1)
                        [] OTHER -> (b + 1) % (n + 1)],
     [k \in Kinds |-> CASE k = "textureHandle" -> (b + 1) % (n + 1) [] k = "normalHandle" -> a
                        [] k = "roughnessHandle" -> b [] OTHER -> (a + 1) % (n + 1)]>> :
   a, b \in 0 .. n}

MCModels ==
  UNION {{[images |-> i, textures |-> t, materials |-> m, primitives |-> p] :
            t \in [1 .. Len(i) -> 0 .. Len(i)], m \in MCMaterials(Len(i)), p \in MCPrimitives} :
         i \in {<<>>, <<d1>>, <<d1, d2>>}}
=============================================================================
