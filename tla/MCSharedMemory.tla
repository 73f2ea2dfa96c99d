---------------------------- MODULE MCSharedMemory ----------------------------
EXTENDS SharedMemory, FiniteSets

Op(op, a, v) == [op |-> op, a |-> a, v |-> v]

\* A critical section that increments "x" under the lock "l".
Section == <<Op("lock", "l", 0), Op("load", "x", 0), Op("bump", "x", 1), Op("store", "l", 0)>>

Idle == <<>>

\* Increments, critical sections (one thread enters twice), a message passed
\* through two stores, and loads behind atomic sequences.
MCPrograms ==
  {<<<<Op("add", "x", 1), Op("add", "x", 1)>>, <<Op("add", "x", 1)>>, <<Op("load", "x", 0), Op("load", "x", 0)>>>>,
   <<<<Op("add", "x", 1)>>, <<Op("add", "x", 1)>>, <<Op("add", "x", 1)>>>>,
   <<Section \o Section, Section, Idle>>,
   <<Section, Section, Section>>,
   <<Section, <<Op("load", "l", 0), Op("store", "y", 1)>>, Section \o <<Op("add", "y", 1), Op("load", "x", 0)>>>>,
   <<<<Op("store", "x", 1), Op("add", "y", 1), Op("load", "l", 0)>>,
     <<Op("add", "x", 1), Op("store", "l", 1), Op("add", "y", 1)>>,
     <<Op("load", "l", 0), Op("load", "y", 0), Op("load", "x", 0)>>>>,
   <<<<Op("store", "x", 2), Op("store", "l", 1)>>, <<Op("load", "l", 0), Op("load", "x", 0)>>,
     <<Op("load", "x", 0), Op("load", "l", 0)>>>>,
   <<<<Op("add", "x", 1), Op("load", "l", 0)>>, <<Op("add", "l", 1), Op("load", "x", 0)>>, Idle>>,
   <<<<Op("store", "x", 2), Op("add", "l", 1), Op("load", "x", 0)>>,
     <<Op("add", "x", 1), Op("load", "l", 0)>>, Idle>>}
=============================================================================
