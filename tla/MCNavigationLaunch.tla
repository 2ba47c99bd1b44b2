------------------------- MODULE MCNavigationLaunch -------------------------
EXTENDS NavigationLaunch

MCArguments ==
  [generate_new_map : {"True", "1", "false", "maybe"}, auto_save_map : {"true", "0"},
   map : {"", "rover_real_map.yaml"}, map_save_initial_delay : {0}, map_save_period : {0, 3}]
=============================================================================
