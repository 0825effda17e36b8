------------------------------ MODULE MCClient ------------------------------
\* A client that may meet anything, anything but a failing launch, anything but
\* a restart of the daemon, the failures after which a stop ends it, and those
\* after which jobs end.
EXTENDS Client

MCScenarios ==
  {AllEvents, AllEvents \ {"launchFails"}, AllEvents \ {"restart"},
   {"lostCall", "refused", "encodeFails", "localFails", "stop"},
   {"lostCall", "encodeFails"}}
=============================================================================
