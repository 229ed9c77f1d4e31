---------------------------- MODULE MCLaAssembly ----------------------------
(* LaAssembly with captures of no frame, of one and of three.              *)
EXTENDS LaAssembly
MCWindows == {<<>>, <<1>>, <<0, 1, 1, 0, 1>>}
=============================================================================
