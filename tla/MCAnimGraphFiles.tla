-------------------------- MODULE MCAnimGraphFiles --------------------------
(***************************************************************************)
(* Two files of the project, one of them named like a graph's id at its    *)
(* end, one of the engine and one outside both, and a relative path, an    *)
(* alias and a name with a forbidden character for them.                   *)
(***************************************************************************)
EXTENDS AnimGraphFiles

MCFile     == {"/project/a", "/project/take2", "/engine/b", "/outside/c"}
MCText     == {"a", "@project@/a", "../outside/c", "2", "{"}
MCResolves == "a" :> "/project/a" @@ "@project@/a" :> "/project/a" @@ "../outside/c" :> "/outside/c"
                @@ "2" :> "/project/a" @@ "{" :> BadPath
MCTails    == "/project/a" :> {"a"} @@ "/project/take2" :> {"2"} @@ "/engine/b" :> {} @@ "/outside/c" :> {}
MCProject  == {"/project/a", "/project/take2"}
MCShared   == {"/project/a"}
MCEngine   == {"/engine/b"}
=============================================================================
