------------------------- MODULE MC_DpaKernelLaunch -------------------------
(* The call sites that may fail, per run of DpaKernelLaunch: three kernels *)
(* of two threads stand for the sample's 255 kernels of 64 threads.        *)
EXTENDS DpaKernelLaunch

\* the failures whose error paths release everything: the second
\* creation, the first export, a launch, the wait, the last destroy
MC_PassSites == {<<"create", 1>>, <<"export", 0>>, <<"launch", 0>>,
                 <<"launch", 2>>, <<"wait", 2>>, <<"destroy", 2>>}
\* the second export fails: the rollback destroys the first event only
MC_SecondExport == {<<"export", 1>>}
\* nothing fails
MC_NoFailure == {}
=============================================================================
