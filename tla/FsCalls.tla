-------------------------------- MODULE FsCalls --------------------------------
(***************************************************************************)
(* The calls with which module Fs is explored.                             *)
(***************************************************************************)

Call(op, path) == [op |-> op, path |-> path, new |-> <<>>]

\* Every call, on names that exist, do not exist, or cease to exist.
AllCalls ==
  {Call("open", <<"a">>), Call("openw", <<"/", "a">>), Call("creat", <<"a", "b">>),
   Call("creat", <<"b">>), Call("mkdir", <<"a", "b">>), Call("mknod", <<"c">>),
   Call("unlink", <<"a">>), Call("unlink", <<"b">>), Call("unlink", <<"a", "b">>),
   Call("chdir", <<"a">>), Call("chdir", <<"..">>), Call("creat", <<"/">>),
   [op |-> "link", path |-> <<"b">>, new |-> <<"a", "b">>],
   [op |-> "link", path |-> <<"b">>, new |-> <<"a">>]}
=============================================================================
