------------------------------- MODULE MCSession -------------------------------
(* Small instances of Session: a file to push, whose scan is then asked of    *)
(* the device, and a package to install behind it.                            *)
EXTENDS Session

PushThenInstall == <<"push", "install">>
PushOnly == <<"push">>
===============================================================================
