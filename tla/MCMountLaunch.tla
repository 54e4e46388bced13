---------------------------- MODULE MCMountLaunch ----------------------------
EXTENDS MountLaunch

AllRoutes == {"fork", "fork_t", "win", "gui"}
=============================================================================
