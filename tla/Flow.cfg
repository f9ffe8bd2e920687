\* Two teams with bots and SOCs, the scorebot, a device of each team and one of an unknown team.
CONSTANTS
    NoOne = NoOne
    TeamIds = {0, 1}
    DisplayName <- Names
    DeviceIds = {0, 1, 9}
    DeviceTeam <- ThreeDevices
    BotEnabled = TRUE
    ConfigTags <- ExampleTags
    ConfigFlows <- ExampleFlows
    ConfigServices <- FewServices
SPECIFICATION Spec
INVARIANTS OnlyThePolicy AllOfThePolicy ActsForItsTeam DialReachesInstance
