------------------------------- MODULE ElfCases -------------------------------
(***************************************************************************)
(* Two processes, three threads, an executable and a library, crashes that *)
(* are an exception, a panic and a crash log.                              *)
(***************************************************************************)

Seg(base, size) == [base |-> base, size |-> size]

MCProcesses == <<"p", "q">>
MCThreads ==
  <<[id |-> "t1", pid |-> "p", stack |-> Seg(10, 2), svc |-> Seg(12, 1), heap |-> Seg(13, 1)],
    [id |-> "u1", pid |-> "q", stack |-> Seg(20, 1), svc |-> Seg(21, 1), heap |-> Seg(22, 1)],
    [id |-> "t2", pid |-> "p", stack |-> Seg(30, 1), svc |-> Seg(31, 0), heap |-> Seg(32, 1)]>>
MCCodeSegs ==
  <<[id |-> "exe", exe |-> TRUE, code |-> Seg(40, 3), ro |-> Seg(43, 1), data |-> Seg(44, 0)],
    [id |-> "dll", exe |-> FALSE, code |-> Seg(50, 1), ro |-> Seg(51, 0), data |-> Seg(52, 2)]>>

Reg(id, class, repr, avail) == [id |-> id, class |-> class, repr |-> repr, avail |-> avail]
MCRegisters ==
  [t1 |-> <<Reg("r0", "core", 32, TRUE), Reg("r13svc", "core", 32, FALSE), Reg("d0", "copro", 64, TRUE)>>,
   t2 |-> <<Reg("r0", "core", 32, TRUE), Reg("b", "core", 8, TRUE), Reg("h", "core", 16, FALSE)>>,
   u1 |-> <<Reg("r0", "core", 32, TRUE)>>]

Crash(uid, source, type, category, trace, var) ==
  [uid |-> uid, source |-> source, type |-> type, category |-> category,
   tid |-> "t1", pid |-> "p", trace |-> trace, var |-> var]
MCCrashes ==
  {Crash("c1", "live", "exception", "", 2, 0), Crash("c2", "live", "kill", "USER", 0, 0),
   Crash("c3", "flash", "kill", "", 3, 1)}

Everything ==
  [sys |-> "both", procdata |-> TRUE, data |-> TRUE, code |-> TRUE, thread |-> TRUE, reg |-> TRUE,
   exec |-> TRUE, process |-> TRUE, trace |-> 3, lock |-> TRUE, rom |-> TRUE, heap |-> TRUE, var |-> TRUE]
===============================================================================
