CHECK_DEADLOCK FALSE
CONSTANTS
    db = db
    web = web
    app = app
    host = host
    plain = plain
    no = no
    headless = headless
    HostService = HostService
    south = south
    Address = {db, web}
    Port = {1, 2}
    Option = {plain}
    Headless = {no, headless}
    Origin = {south}
    Local = Local
    Target = {db, app, host}
    Selector = {Container, HostService}
    Container = Container
    Service = {NoService}
    NoService = NoService
    Kind <- KindOf
    Controller = Controller
    NoDef = NoDef
    Torn = Torn
    Engines = {"docker", "podman"}
    Written <- Contents
    MaxWrites = 2
    MaxRestarts = 1
    MaxUserSteps = 2
    Interval = 2
    Deadline = 2
    MaxMessages = 1
SPECIFICATION ControllerSpec
INVARIANTS ControllerTypeOK PullBounded TargetsAttached
PROPERTIES ProgressKept OlderContainersKept Implements CatchesUp
